---- MODULE Spec2Model ----
(***************************************************************************)
(* A model of the DefineX plugin contract engine: the runtime's action     *)
(* table and lookup (runtime.py), the native runner's dispatch              *)
(* (runner/native_runner.py, runner/param_validate.py), execution of a     *)
(* handler with the realtime collector and the action context               *)
(* (runtime.py, sdk/collector.py, sdk/context.py), and the scanner's cache, *)
(* contract generation and the alignment check (core/scanner.py,            *)
(* core/manifest_generator.py, core/validator.py).                          *)
(*                                                                         *)
(* Each component has its own specification over its own variables; the    *)
(* variables of the other components stay as Init left them.               *)
(***************************************************************************)
EXTENDS Integers, Sequences, FiniteSets, TLC

VARIABLES
    \* PluginRuntime (runtime.py)
    constructed,    \* __init__ has run
    manifest,       \* self.manifest["actions"]: the contract's action list
    actions,        \* self.actions: dict name -> action record
    lookup,         \* the last get_action_metadata call and its outcome
    \* NativeRunner (runner/native_runner.py)
    run,            \* the last dispatch and what it did
    \* One invocation: PluginRuntime.execute / execute_stream with its
    \* ActionContext and RealtimeCollector (runtime.py, sdk/context.py,
    \* sdk/collector.py)
    inv,            \* the invocation: handler, position in its rows, outcome
    ctx,            \* the context: emitted events and the collector's fields
    stop,           \* the context's stop_event is set
    \* CodeScanner, ManifestGenerator and the validator's alignment check
    \* (core/scanner.py, core/manifest_generator.py, core/validator.py)
    tools,          \* the plugin's tools directory: its files and mtimes
    now,            \* the file system's clock
    cache,          \* the CacheManager's cache file for the plugin root
    use_cache,      \* CodeScanner.use_cache
    persisted,      \* manifest.yaml as generate left it
    scan,           \* the last scan of the source tree as it is now
    align,          \* the last alignment check of the tree as it is now
    changedSinceGenerate,   \* a source file changed after manifest.yaml
                            \* was last written
    changes,        \* how many times the source tree was changed
    \* The schema well-formedness check (core/validator.py)
    givenSchema,    \* the schema node handed to the check
    checked,        \* what the check returned and reported for it
    \* The full audit, ProjectValidator.check_all (core/validator.py)
    project,        \* requirements.txt and the form of manifest.yaml
    audit,          \* the last check_all call: what ran and what it gave
    \* Type translation (core/translator.py, CodeScanner._parse_to_meta)
    method,         \* the signature of the action method being parsed
    action_meta,    \* what _parse_to_meta made of it
    \* The watcher (core/watcher.py) and the enrichment passes it starts
    event_queue,    \* number of changed-file events waiting in the EventQueue
    sys_path,       \* number of entries of sys.path equal to the tools path
    threads,        \* where the observer thread and the main loop stand
    \* One ActionContext serving successive execute calls (the REPL)
    session,        \* its collector and what each call fed and returned
    \* sys.path as a list, around one call of _enrich_with_types
    search_path,    \* the list, what the call found, and where the call stands
    \* One source file under the syntax pass
    ast_scan,       \* its syntax tree and the signatures recorded from it
    \* The watcher's EventQueue with the paths it holds
    watch_events,   \* the queue, the changes not yet in a batch, the last batch
    \* One cache file under concurrent save_cache and load_cache calls
    cache_io        \* the file's text, the locks, the writers, the last load

rtVars == <<constructed, manifest, actions, lookup>>
runVars == <<run>>
exVars == <<inv, ctx, stop>>
scVars ==
    <<tools, now, cache, use_cache, persisted, scan, align,
      changedSinceGenerate, changes>>
wtVars == <<event_queue, sys_path, threads>>
extVars == <<session, search_path, ast_scan, watch_events, cache_io>>
coreVars ==
    <<givenSchema, checked, project, audit, method, action_meta, wtVars,
      extVars>>
vars ==
    <<constructed, manifest, actions, lookup, run, inv, ctx, stop,
      tools, now, cache, use_cache, persisted, scan, align,
      changedSinceGenerate, changes, givenSchema, checked,
      project, audit, method, action_meta, event_queue, sys_path, threads,
      session, search_path, ast_scan, watch_events, cache_io>>

(***************************************************************************)
(* Values                                                                  *)
(***************************************************************************)

\* Bounds of the model.
MaxActions == 2          \* actions in a contract

ActionNames == {"greet", "fetch"}
UnknownName == "nosuch"
QueryNames == ActionNames \cup {UnknownName}

\* JSON values a caller can pass for a parameter, and Absent for a key that
\* is not in the params dict.
Absent == "absent"
ArgValues == {"str_a", "str_b", "num_1"}
JsonType(v) == IF v = "num_1" THEN "number" ELSE "string"

\* An inputSchema as the scanner writes it (scanner.py:485-489): an object
\* with one property "x" or none, and the top-level "required" list.
\* hasX: "x" is a property; xType, xEnum: its type and enum (NoEnum: none);
\* xRequired: "x" is in the required list.
NoEnum == {}
Schemas ==
    { [hasX |-> FALSE, xType |-> "string", xEnum |-> NoEnum, xRequired |-> FALSE],
      [hasX |-> TRUE,  xType |-> "string", xEnum |-> NoEnum, xRequired |-> TRUE],
      [hasX |-> TRUE,  xType |-> "string", xEnum |-> {"str_a"}, xRequired |-> FALSE],
      [hasX |-> TRUE,  xType |-> "number", xEnum |-> NoEnum, xRequired |-> TRUE],
      [hasX |-> TRUE,  xType |-> "blob",   xEnum |-> NoEnum, xRequired |-> FALSE] }

ActionRecords ==
    [name : ActionNames, inputSchema : Schemas, is_streaming : BOOLEAN]

NoMeta == [name |-> "", inputSchema |-> CHOOSE s \in Schemas : ~s.hasX,
           is_streaming |-> FALSE]

\* Contracts: the "actions" list of manifest.yaml.
Contracts == UNION { [1..n -> ActionRecords] : n \in 0..MaxActions }

ContractNames(c) == { c[i].name : i \in DOMAIN c }

\* A dict keyed by action name.
EmptyDict == [n \in {} |-> NoMeta]
Dicts ==
    UNION { { d \in [D -> ActionRecords] : \A n \in D : d[n].name = n } :
            D \in SUBSET ActionNames }

\* The params dict handed to validation and to the handler. isObject is
\* FALSE for a JSON text that parses to something other than an object.
Params == [isObject : BOOLEAN, x : ArgValues \cup {Absent}]
EmptyParams == [isObject |-> TRUE, x |-> Absent]
JsonValues == { p \in Params : ~p.isObject => p.x = Absent }

\* The params_json argument: None, the empty string, a text that is not
\* JSON, or a JSON text with its parsed value.
ParamsJson ==
    { [kind |-> k, value |-> EmptyParams] : k \in {"none", "empty", "invalid"} }
    \cup { [kind |-> "json", value |-> v] : v \in JsonValues }

NoRun == [via |-> "none", name |-> "", meta |-> NoMeta, params |-> EmptyParams,
          outcome |-> "none", path |-> "", resolved |-> FALSE,
          validated |-> FALSE, invoked |-> FALSE, streamed |-> FALSE]

(***************************************************************************)
(* PluginRuntime                                                           *)
(***************************************************************************)

\* _prepare's dict comprehension {a["name"]: a for a in actions}: for a name
\* that occurs twice the later entry wins.
PrepareActions(c) ==
    [n \in ContractNames(c) |->
        c[CHOOSE i \in DOMAIN c :
            /\ c[i].name = n
            /\ \A j \in DOMAIN c : c[j].name = n => j <= i]]

\* __init__: _prepare() loads the manifest and builds self.actions from it,
\* and the statement after the call assigns self.actions = {}.
PluginRuntimeInit(c) ==
    LET prepared == [manifest |-> c, actions |-> PrepareActions(c)]
    IN  [manifest |-> prepared.manifest, actions |-> EmptyDict]

\* get_action_metadata: self.actions.get(name); a falsy result raises
\* ValueError ("not found"), anything else is returned.
get_action_metadata(tbl, name) ==
    IF name \in DOMAIN tbl
    THEN [found |-> TRUE, meta |-> tbl[name]]
    ELSE [found |-> FALSE, meta |-> NoMeta]

NoLookup == [done |-> FALSE, name |-> "", found |-> FALSE, meta |-> NoMeta]

Construct ==
    /\ ~constructed
    /\ \E c \in Contracts :
        LET rt == PluginRuntimeInit(c)
        IN  /\ manifest' = rt.manifest
            /\ actions' = rt.actions
    /\ constructed' = TRUE
    /\ UNCHANGED <<coreVars, scVars, lookup, runVars, exVars>>

GetActionMetadata ==
    /\ constructed
    /\ \E name \in QueryNames :
        LET r == get_action_metadata(actions, name)
        IN  lookup' = [done |-> TRUE, name |-> name, found |-> r.found,
                       meta |-> r.meta]
    /\ UNCHANGED <<coreVars, scVars, constructed, manifest, actions, runVars, exVars>>

(***************************************************************************)
(* ParamsValidate and NativeRunner                                         *)
(***************************************************************************)

\* _preprocess_schema: a deep copy in which every node of type "blob"
\* becomes a node of type "string".
preprocess_schema(schema) ==
    [schema EXCEPT !.xType = IF @ = "blob" THEN "string" ELSE @]

\* ParamsValidate.validate: jsonschema's type / required / enum checks on the
\* preprocessed schema. ok: no ValidationError; path: the error's field path
\* as the ValueError names it ("root" for an empty path: a non-object
\* instance or a missing required property).
validate(params, schema) ==
    LET ps == preprocess_schema(schema)
    IN  IF ~params.isObject
        THEN [ok |-> FALSE, path |-> "root"]
        ELSE IF ps.hasX /\ ps.xRequired /\ params.x = Absent
        THEN [ok |-> FALSE, path |-> "root"]
        ELSE IF /\ ps.hasX
                /\ params.x # Absent
                /\ \/ JsonType(params.x) # ps.xType
                   \/ (ps.xEnum # NoEnum /\ params.x \notin ps.xEnum)
        THEN [ok |-> FALSE, path |-> "x"]
        ELSE [ok |-> TRUE, path |-> ""]

\* Python truthiness of params_json: None and "" are falsy.
Truthy(pj) == pj.kind \notin {"none", "empty"}

\* The dispatch reached plugin_runtime.execute / execute_stream with params.
Dispatched(via, name, meta, params, validated) ==
    [via |-> via, name |-> name, meta |-> meta, params |-> params,
     outcome |-> "Executed", path |-> "", resolved |-> TRUE,
     validated |-> validated, invoked |-> TRUE,
     streamed |-> meta.is_streaming]

\* The dispatch ended before the handler was reached.
Refused(via, name, meta, params, outcome, path, resolved, validated) ==
    [via |-> via, name |-> name, meta |-> meta, params |-> params,
     outcome |-> outcome, path |-> path, resolved |-> resolved,
     validated |-> validated, invoked |-> FALSE, streamed |-> FALSE]

\* _run_native_single._exec (watch = False): the lookup raises for an unknown
\* name; params = {}; only a truthy params_json is parsed and validated; a
\* JSONDecodeError returns, the validator's ValueError propagates.
run_native_single(tbl, name, pj) ==
    LET r == get_action_metadata(tbl, name)
    IN  IF ~r.found
        THEN Refused("single", name, NoMeta, EmptyParams, "ActionNotFound", "",
                     FALSE, FALSE)
        ELSE IF Truthy(pj)
        THEN IF pj.kind = "invalid"
             THEN Refused("single", name, r.meta, EmptyParams, "JsonError", "",
                          TRUE, FALSE)
             ELSE LET v == validate(pj.value, r.meta.inputSchema)
                  IN  IF ~v.ok
                      THEN Refused("single", name, r.meta, pj.value,
                                   "ContractViolation", v.path, TRUE, TRUE)
                      ELSE Dispatched("single", name, r.meta, pj.value, TRUE)
        ELSE Dispatched("single", name, r.meta, EmptyParams, FALSE)

\* _process_line, command "run <action_name> [json]": without a third word
\* params_json is "{}"; the text is parsed and validated in every case.
\* The joined words are never the empty string.
process_line(tbl, name, pj) ==
    LET r == get_action_metadata(tbl, name)
        params == IF pj.kind = "none" THEN EmptyParams ELSE pj.value
    IN  IF ~r.found
        THEN Refused("repl", name, NoMeta, EmptyParams, "ActionNotFound", "",
                     FALSE, FALSE)
        ELSE IF pj.kind = "invalid"
        THEN Refused("repl", name, r.meta, EmptyParams, "JsonError", "",
                     TRUE, FALSE)
        ELSE LET v == validate(params, r.meta.inputSchema)
             IN  IF ~v.ok
                 THEN Refused("repl", name, r.meta, params,
                              "ContractViolation", v.path, TRUE, TRUE)
                 ELSE Dispatched("repl", name, r.meta, params, TRUE)

RunSingle ==
    /\ \E name \in QueryNames, pj \in ParamsJson :
        run' = run_native_single(actions, name, pj)
    /\ UNCHANGED <<coreVars, scVars, rtVars, exVars>>

ProcessLine ==
    /\ \E name \in QueryNames, pj \in { q \in ParamsJson : q.kind # "empty" } :
        run' = process_line(actions, name, pj)
    /\ UNCHANGED <<coreVars, scVars, rtVars, exVars>>

(***************************************************************************)
(* ResourcePolicy, RealtimeCollector, ActionContext                        *)
(***************************************************************************)

\* ResourcePolicy.AUTO_SPILL_THRESHOLD_BYTES and ROW_GROUP_SIZE are read from
\* the environment (DFX_MEMORY_THRESHOLD_BYTES, DFX_ROW_GROUP_SIZE; defaults
\* 5 MB and 100000 rows). The model runs with small configured values.
AUTO_SPILL_THRESHOLD_BYTES == 100
ROW_GROUP_SIZE == 4

MaxRows == 5             \* rows a handler's generator produces
RowSizes == {20, 40}     \* ResourcePolicy.estimate_row_size of a row

RowSeqs == UNION { [1..n -> RowSizes] : n \in 0..MaxRows }

\* The i-th row of a generator whose rows have the sizes sizes.
Row(sizes, i) == [id |-> i, size |-> sizes[i]]

RECURSIVE SumSizes(_)
SumSizes(rows) ==
    IF rows = <<>> THEN 0 ELSE rows[1].size + SumSizes(Tail(rows))

RECURSIVE Flatten(_)
Flatten(parts) ==
    IF parts = <<>> THEN <<>> ELSE parts[1] \o Flatten(Tail(parts))

\* A fresh ActionContext with its RealtimeCollector (context.py:14-34,
\* collector.py:7-13). events: what emit sent to the event bus; parts: the
\* batches save_temp_batch stored, in order (a part's URI is represented by
\* the batch it names); merges: the part lists handed to merge_parts;
\* checks: the calls of check_cancelled (the reads of the stop event).
NewContext ==
    [events |-> <<>>, checks |-> 0, buffer |-> <<>>, bytes |-> 0,
     parts |-> <<>>, isActive |-> FALSE, merges |-> <<>>]

\* ActionContext.emit
emit(c, eventType) == [c EXCEPT !.events = Append(@, eventType)]

\* ActionContext.check_cancelled: with the stop event set it emits CANCELLED
\* and raises InterruptedError.
check_cancelled(c, stopSet) ==
    LET c1 == [c EXCEPT !.checks = @ + 1]
    IN  IF stopSet
        THEN [ctx |-> emit(c1, "cancelled"), raised |-> TRUE]
        ELSE [ctx |-> c1, raised |-> FALSE]

\* A flush that saves the part and clears the buffer but keeps the running
\* byte total.
spill_to_disk_keeps_total(c) ==
    IF c.buffer = <<>>
    THEN c
    ELSE [emit(c, "spill") EXCEPT !.parts = Append(@, c.buffer),
                                  !.buffer = <<>>]

\* RealtimeCollector._spill_to_disk
spill_to_disk(c) ==
    IF c.buffer = <<>>
    THEN c
    ELSE [emit(c, "spill") EXCEPT !.parts = Append(@, c.buffer),
                                  !.buffer = <<>>,
                                  !.bytes = 0]

\* The condition of add's if statement.
SpillMutantStrict(c) ==
    \/ c.bytes > AUTO_SPILL_THRESHOLD_BYTES
    \/ Len(c.buffer) >= ROW_GROUP_SIZE

SpillTriggered(c) ==
    \/ c.bytes >= AUTO_SPILL_THRESHOLD_BYTES
    \/ Len(c.buffer) >= ROW_GROUP_SIZE

\* RealtimeCollector.add
collector_add(c, row) ==
    LET c1 == [c EXCEPT !.buffer = Append(@, row),
                        !.bytes = @ + row.size,
                        !.isActive = TRUE]
    IN  IF SpillTriggered(c1) THEN spill_to_disk(c1) ELSE c1

\* Results of an invocation. kind: "none" (None), "value" (an eager return
\* value), "rows" (a row list), "ref" (the merged reference, with
\* metrics.total_parts).
NoResult == [kind |-> "unset", rows |-> <<>>, total_parts |-> 0]
NoneResult == [kind |-> "none", rows |-> <<>>, total_parts |-> 0]
ValueResult == [kind |-> "value", rows |-> <<>>, total_parts |-> 0]

\* get_result as the claim C4 describes it: the buffered rows when nothing
\* was spilled.
get_result_rows_when_unspilled(c) ==
    IF ~c.isActive
    THEN [ctx |-> c, result |-> NoneResult]
    ELSE IF c.parts = <<>>
    THEN [ctx |-> c,
          result |-> [kind |-> "rows", rows |-> c.buffer, total_parts |-> 0]]
    ELSE LET c1 == IF c.buffer # <<>> THEN spill_to_disk(c) ELSE c
             c2 == [c1 EXCEPT !.merges = Append(@, c1.parts)]
         IN  [ctx |-> c2,
              result |-> [kind |-> "ref", rows |-> <<>>,
                          total_parts |-> Len(c2.parts)]]

\* RealtimeCollector.get_result
get_result(c) ==
    IF ~c.isActive
    THEN [ctx |-> c, result |-> NoneResult]
    ELSE IF c.parts # <<>> \/ c.buffer # <<>>
    THEN LET c1 == IF c.buffer # <<>> THEN spill_to_disk(c) ELSE c
             c2 == [c1 EXCEPT !.merges = Append(@, c1.parts)]
         IN  [ctx |-> c2,
              result |-> [kind |-> "ref", rows |-> <<>>,
                          total_parts |-> Len(c2.parts)]]
    ELSE [ctx |-> c,
          result |-> [kind |-> "rows", rows |-> <<>>, total_parts |-> 0]]

\* ActionContext.__enter__
context_enter(c) == emit(c, "enter")

\* ActionContext.__exit__: exc is "none", "error" (any exception that is not
\* an InterruptedError) or "interrupted" (InterruptedError).
context_exit(c, exc) ==
    IF exc # "none"
    THEN IF exc = "interrupted" THEN c ELSE emit(c, "exception")
    ELSE emit(c, "success")

(***************************************************************************)
(* PluginRuntime.execute and execute_stream                                *)
(***************************************************************************)

\* The handler an action resolves to, by its behaviour:
\*   gen     it is a generator function; rows: the sizes of the rows it yields
\*   fail    it raises: "none", "error", or "interrupted" (it raises
\*           InterruptedError itself); failAt: after yielding that many rows
\*           (0 for a handler that is not a generator)
\*   polls   it calls context.check_cancelled() inside try/except, swallows
\*           the interruption, and goes on to return
\*   chunks  the rows it yields are StreamChunk objects that carry their own
\*           index (their position) and is_last
Handlers ==
    { h \in [gen : BOOLEAN, rows : RowSeqs, fail : {"none", "error", "interrupted"},
             failAt : 0..MaxRows, polls : BOOLEAN, chunks : BOOLEAN] :
        /\ ~h.gen => (h.rows = <<>> /\ ~h.chunks)
        /\ h.failAt <= Len(h.rows)
        /\ h.fail = "none" => h.failAt = 0
        /\ h.polls => (~h.gen /\ h.fail = "none") }

NoHandler == [gen |-> FALSE, rows |-> <<>>, fail |-> "none", failAt |-> 0,
              polls |-> FALSE, chunks |-> FALSE]

\* StreamChunk(delta, index=0, is_last=False).to_dict(); delta is the row id
\* (0: the eager value).
StreamChunk(delta, index, is_last) ==
    [delta |-> delta, index |-> index, is_last |-> is_last]

\* The invocation. pc: "idle", "running" (inside the for loop over the
\* generator), "Completed", "Failed", "Cancelled". pos: rows taken from the
\* generator and passed on. exc: the exception that ended it; byCheck: it
\* was raised by the runtime's own check_cancelled call.
NoInv == [pc |-> "idle", mode |-> "none", inWith |-> FALSE,
          handler |-> NoHandler, pos |-> 0, exc |-> "none", byCheck |-> FALSE,
          result |-> NoResult, chunks |-> <<>>]

Terminal(exc) ==
    CASE exc = "none" -> "Completed"
      [] exc = "interrupted" -> "Cancelled"
      [] OTHER -> "Failed"

\* The invocation ends with exc; inside a with block __exit__ runs.
Leave(i, c, exc, byCheck, result) ==
    [inv |-> [i EXCEPT !.pc = Terminal(exc), !.exc = exc, !.byCheck = byCheck,
                       !.result = result],
     ctx |-> IF i.inWith THEN context_exit(c, exc) ELSE c]

\* The body of execute's for loop with the collector fed before the check.
execute_row_add_first(c, stopSet, row) ==
    LET added == collector_add(c, row)
        cc == check_cancelled(added, stopSet)
    IN  [ctx |-> cc.ctx, raised |-> cc.raised]

\* The body of execute's for loop for one row: check_cancelled, then
\* collector.add.
execute_row(c, stopSet, row) ==
    LET cc == check_cancelled(c, stopSet)
    IN  IF cc.raised
        THEN [ctx |-> cc.ctx, raised |-> TRUE]
        ELSE [ctx |-> collector_add(cc.ctx, row), raised |-> FALSE]

\* The stop event is set from outside (another thread), at any time.
SetStop ==
    /\ ~stop
    /\ stop' = TRUE
    /\ UNCHANGED <<coreVars, scVars, rtVars, runVars, inv, ctx>>

\* The caller enters the with block (if any) and calls execute or iterates
\* execute_stream: method(**params) runs. A handler that is not a generator
\* finishes here; a generator is left at its first row.
Invoke ==
    /\ inv.pc = "idle"
    /\ \E h \in Handlers, mode \in {"execute", "stream"}, w \in BOOLEAN :
        /\ h.chunks => mode = "stream"
        /\ LET c0 == IF w THEN context_enter(ctx) ELSE ctx
               i0 == [inv EXCEPT !.mode = mode, !.inWith = w, !.handler = h]
               polled == IF h.polls THEN check_cancelled(c0, stop).ctx ELSE c0
               done ==
                   IF h.fail # "none"
                   THEN Leave(i0, polled, h.fail, FALSE, NoResult)
                   ELSE IF mode = "execute"
                   THEN Leave(i0, polled, "none", FALSE, ValueResult)
                   ELSE Leave([i0 EXCEPT !.chunks = <<StreamChunk(0, 0, TRUE)>>],
                              polled, "none", FALSE, NoResult)
           IN  IF h.gen
               THEN /\ inv' = [i0 EXCEPT !.pc = "running"]
                    /\ ctx' = c0
               ELSE /\ inv' = done.inv
                    /\ ctx' = done.ctx
    /\ UNCHANGED <<coreVars, scVars, rtVars, runVars, stop>>

\* The generator raises instead of yielding its next row.
HandlerRaises ==
    /\ inv.pc = "running"
    /\ inv.handler.fail # "none"
    /\ inv.pos = inv.handler.failAt
    /\ LET done == Leave(inv, ctx, inv.handler.fail, FALSE, NoResult)
       IN  inv' = done.inv /\ ctx' = done.ctx
    /\ UNCHANGED <<coreVars, scVars, rtVars, runVars, stop>>

Yields(i) ==
    /\ i.pc = "running"
    /\ i.pos < Len(i.handler.rows)
    /\ ~(i.handler.fail # "none" /\ i.pos = i.handler.failAt)

Exhausted(i) ==
    /\ i.pc = "running"
    /\ i.pos = Len(i.handler.rows)
    /\ ~(i.handler.fail # "none" /\ i.pos = i.handler.failAt)

\* execute: the generator yields its next row and the loop body runs.
ExecuteRow ==
    /\ inv.mode = "execute"
    /\ Yields(inv)
    /\ LET r == execute_row(ctx, stop, Row(inv.handler.rows, inv.pos + 1))
           cancelled == Leave(inv, r.ctx, "interrupted", TRUE, NoResult)
       IN  IF r.raised
           THEN inv' = cancelled.inv /\ ctx' = cancelled.ctx
           ELSE inv' = [inv EXCEPT !.pos = @ + 1] /\ ctx' = r.ctx
    /\ UNCHANGED <<coreVars, scVars, rtVars, runVars, stop>>

\* execute: the generator is exhausted; return context.collector.get_result().
ExecuteFinish ==
    /\ inv.mode = "execute"
    /\ Exhausted(inv)
    /\ LET g == get_result(ctx)
           done == Leave(inv, g.ctx, "none", FALSE, g.result)
       IN  inv' = done.inv /\ ctx' = done.ctx
    /\ UNCHANGED <<coreVars, scVars, rtVars, runVars, stop>>

\* execute_stream's chunk for one yielded row: a StreamChunk is passed on as
\* it is, anything else is wrapped as StreamChunk(delta=chunk).
stream_chunk(h, pos) ==
    IF h.chunks
    THEN StreamChunk(pos + 1, pos, pos + 1 = Len(h.rows))
    ELSE StreamChunk(pos + 1, 0, FALSE)

\* execute_stream: the caller asks for the next chunk and the generator
\* yields a row.
StreamRow ==
    /\ inv.mode = "stream"
    /\ Yields(inv)
    /\ inv' = [inv EXCEPT !.pos = @ + 1,
                          !.chunks = Append(@, stream_chunk(inv.handler, inv.pos))]
    /\ UNCHANGED <<coreVars, scVars, rtVars, runVars, ctx, stop>>

\* execute_stream: the generator is exhausted.
StreamFinish ==
    /\ inv.mode = "stream"
    /\ Exhausted(inv)
    /\ LET done == Leave(inv, ctx, "none", FALSE, NoResult)
       IN  inv' = done.inv /\ ctx' = done.ctx
    /\ UNCHANGED <<coreVars, scVars, rtVars, runVars, stop>>

(***************************************************************************)
(* CodeScanner with its CacheManager, ManifestGenerator.generate and       *)
(* ProjectValidator._check_code_alignment (core/scanner.py,                *)
(* core/optimizer.py, core/manifest_generator.py, core/validator.py).      *)
(* One CodeScanner is shared by the generator and the validator            *)
(* (manager.py), so both go through the same cache file.                   *)
(***************************************************************************)

\* Bounds of the source tree and of the file-system clock.
MaxFiles == 2
MaxClock == 2
MaxChanges == 1

\* The files a tools directory may hold, in the order rglob lists them.
FileOrder ==
    << "__init__.py", "bar.py", "broken.py", "foo.py", "garbled.py",
       "test_qux.py", "util.py", "warn.py" >>

Files == {FileOrder[i] : i \in DOMAIN FileOrder}

\* The files the tree is made of where files come and go; garbled.py, which
\* like util.py gives the scans no signature, is left to the single scans.
EditedFiles == Files \ {"garbled.py"}

\* What _parse_to_meta returns for one action, as far as the scanner's
\* callers look at it: its name, the kind of a parameter default it carries
\* in its inputSchema ("none", a "tuple", a "list") and whether
\* _validation_warnings holds a parameter_annotation/parameter_description
\* entry.
ActionMeta(n, d, w) == [name |-> n, default |-> d, warned |-> w]

\* A source file: its name starts with "__", it matches test_*.py, the
\* @action methods written in it, whether ast.parse accepts it, and whether
\* _load_module and the introspection of its classes succeed on it.
SourceFile(dunder, test, sigs, parses, loadable) ==
    [dunder |-> dunder, test |-> test, sigs |-> sigs, parses |-> parses,
     loadable |-> loadable]

FileInfo(f) ==
    CASE f = "__init__.py" ->
            SourceFile(TRUE, FALSE, <<ActionMeta("baz", "none", FALSE)>>,
                       TRUE, TRUE)
      [] f = "bar.py" ->
            SourceFile(FALSE, FALSE, <<ActionMeta("bar", "tuple", FALSE)>>,
                       TRUE, TRUE)
      [] f = "broken.py" ->
            SourceFile(FALSE, FALSE, <<ActionMeta("zap", "none", FALSE)>>,
                       TRUE, FALSE)
      [] f = "foo.py" ->
            SourceFile(FALSE, FALSE, <<ActionMeta("foo", "none", FALSE)>>,
                       TRUE, TRUE)
      [] f = "garbled.py" ->
            SourceFile(FALSE, FALSE, <<ActionMeta("gar", "none", FALSE)>>,
                       FALSE, FALSE)
      [] f = "test_qux.py" ->
            SourceFile(FALSE, TRUE, <<ActionMeta("qux", "none", FALSE)>>,
                       TRUE, TRUE)
      [] f = "util.py" ->
            SourceFile(FALSE, FALSE, <<>>, TRUE, TRUE)
      [] OTHER ->
            SourceFile(FALSE, FALSE, <<ActionMeta("wrn", "none", TRUE)>>,
                       TRUE, TRUE)

\* The tools directory: whether it exists and each file's mtime (0: the file
\* is not there).
NoFiles == [f \in Files |-> 0]

Present(t) == {f \in Files : t.mtime[f] > 0}

Intents == {"default", "strict"}

\* scan_tools_directory: rglob("*.py") without the names starting with "__".
plain_py_files(t) ==
    SelectSeq(FileOrder, LAMBDA f : t.mtime[f] > 0 /\ ~FileInfo(f).dunder)

\* SmartScannerOptimizer.filter_files on *.py files: the default intent
\* excludes none of them, the strict intent excludes test_*.py.
filter_files(t, intent) ==
    SelectSeq(FileOrder,
              LAMBDA f : t.mtime[f] > 0
                         /\ ~(intent = "strict" /\ FileInfo(f).test))

\* The cache file: json.dump writes a tuple as an array, json.load reads an
\* array as a list.
json_dump(data) ==
    [i \in DOMAIN data |->
        [data[i] EXCEPT !.default = IF @ = "tuple" THEN "list" ELSE @]]

NoCache == [exists |-> FALSE, mtime |-> 0, data |-> <<>>]

is_cache_valid(c, t, py_files) ==
    /\ c.exists
    /\ \A i \in DOMAIN py_files : ~(t.mtime[py_files[i]] > c.mtime)

\* load_cache: None when there is no file, else the list read from it; the
\* callers only test the result for truthiness, and None and [] are both
\* false.
load_cache(c) == IF c.exists THEN c.data ELSE <<>>

save_cache(data, clock) ==
    [exists |-> TRUE, mtime |-> clock, data |-> json_dump(data)]

\* The syntax pass: the signatures of every file, each with its file; a
\* file that does not parse gives none.
RECURSIVE extract_action_signatures(_)
extract_action_signatures(py_files) ==
    IF py_files = <<>> THEN <<>>
    ELSE LET f == Head(py_files)
             found == IF FileInfo(f).parses THEN FileInfo(f).sigs ELSE <<>>
         IN  [i \in DOMAIN found |-> [file_path |-> f, meta |-> found[i]]]
             \o extract_action_signatures(Tail(py_files))

\* Enrichment that gives up at the first signature whose module fails.
RECURSIVE UntilFirstFailure(_)
UntilFirstFailure(action_sigs) ==
    IF action_sigs = <<>> THEN <<>>
    ELSE IF ~FileInfo(Head(action_sigs).file_path).loadable THEN <<>>
    ELSE <<Head(action_sigs)>> \o UntilFirstFailure(Tail(action_sigs))

enrich_with_types_abort_on_failure(action_sigs) ==
    LET ok == UntilFirstFailure(action_sigs)
    IN  [full_actions |-> [i \in DOMAIN ok |-> ok[i].meta],
         loads |-> Len(action_sigs)]

\* _enrich_with_types: one module load per signature; a signature whose
\* module fails to load or to be introspected is skipped.
enrich_with_types(action_sigs) ==
    LET ok == SelectSeq(action_sigs, LAMBDA s : FileInfo(s.file_path).loadable)
    IN  [full_actions |-> [i \in DOMAIN ok |-> ok[i].meta],
         loads |-> Len(action_sigs)]

ScanOutcome(result, c, fromCache, parsed, loads) ==
    [result |-> result, cache |-> c, fromCache |-> fromCache,
     parsed |-> parsed, loads |-> loads]

scan_tools_directory(t, c, uc, clock) ==
    IF ~t.exists THEN ScanOutcome(<<>>, c, FALSE, 0, 0)
    ELSE
        LET py_files == plain_py_files(t)
            cached_actions == load_cache(c)
            en == enrich_with_types(extract_action_signatures(py_files))
        IN  IF uc /\ is_cache_valid(c, t, py_files) /\ cached_actions # <<>>
            THEN ScanOutcome(cached_actions, c, TRUE, 0, 0)
            ELSE ScanOutcome(en.full_actions,
                             IF uc THEN save_cache(en.full_actions, clock)
                                   ELSE c,
                             FALSE, Len(py_files), en.loads)

scan_tools_directory_smart(t, c, uc, clock, intent) ==
    IF ~t.exists THEN ScanOutcome(<<>>, c, FALSE, 0, 0)
    ELSE
        LET py_files == filter_files(t, intent)
            cached_actions == load_cache(c)
            all_actions == extract_action_signatures(py_files)
            en == IF all_actions # <<>> THEN enrich_with_types(all_actions)
                  ELSE [full_actions |-> <<>>, loads |-> 0]
        IN  IF py_files = <<>> THEN ScanOutcome(<<>>, c, FALSE, 0, 0)
            ELSE IF uc /\ is_cache_valid(c, t, py_files)
                       /\ cached_actions # <<>>
            THEN ScanOutcome(cached_actions, c, TRUE, 0, 0)
            ELSE ScanOutcome(en.full_actions,
                             IF uc /\ en.full_actions # <<>>
                                 THEN save_cache(en.full_actions, clock)
                                 ELSE c,
                             FALSE, Len(py_files), en.loads)

\* validate_actions: the actions with a parameter warning.
validate_actions(acts) == {i \in DOMAIN acts : acts[i].warned}

\* manifest.yaml: _build_manifest_data lists the actions by name.
\* The plugin_info entry of a manifest.yaml: the key is "absent", its value
\* is a "scalar" (None, a string, a list) or it is a "mapping" whose id,
\* name, version and description are some value or "missing" and which
\* carries other keys or not.
InfoKeys == {"id", "name", "version", "description"}

PluginInfo(kind, fields, extra) ==
    [kind |-> kind, fields |-> fields, extra |-> extra]

NoInfo == PluginInfo("absent", [k \in InfoKeys |-> "missing"], FALSE)

\* root.name, root.name, "0.1.0" and f"{root.name} plugin".
DefaultInfo ==
    PluginInfo("mapping",
               [k \in InfoKeys |->
                   CASE k = "version" -> "0.1.0"
                     [] k = "description" -> "root plugin"
                     [] OTHER -> "root"],
               FALSE)

NoManifestFile == [exists |-> FALSE, actions |-> <<>>, plugin_info |-> NoInfo]

\* The block written without a look at the manifest that is there.
merged_plugin_info_from_defaults(old) == DefaultInfo

\* plugin_info of _build_manifest_data: the defaults, updated from the
\* existing manifest's plugin_info when that is a mapping (the .get on
\* anything else raises, and the exception is swallowed).
merged_plugin_info(old) ==
    IF old.exists /\ old.plugin_info.kind = "mapping"
    THEN PluginInfo("mapping",
                    [k \in InfoKeys |->
                        IF old.plugin_info.fields[k] = "missing"
                        THEN DefaultInfo.fields[k]
                        ELSE old.plugin_info.fields[k]],
                    FALSE)
    ELSE DefaultInfo

build_manifest_data(acts, old) ==
    [exists |-> TRUE, actions |-> [i \in DOMAIN acts |-> acts[i].name],
     plugin_info |-> merged_plugin_info(old)]

\* generate: the manifest file it leaves and the scan it ran.
generate(t, c, uc, clock, intent, old) ==
    LET s == scan_tools_directory_smart(t, c, uc, clock, intent)
        written == s.result # <<>> /\ validate_actions(s.result) = {}
    IN  [scan |-> s, written |-> written,
         file |-> IF written THEN build_manifest_data(s.result, old) ELSE old]

\* The check with the second difference left out of the verdict.
check_code_alignment_one_sided(manifest_actions, code_actions_list) ==
    LET M == {manifest_actions[i] : i \in DOMAIN manifest_actions}
        C == {code_actions_list[i].name : i \in DOMAIN code_actions_list}
    IN  [missing_in_code |-> M \ C,
         missing_in_manifest |-> C \ M,
         valid |-> (M \ C = {})]

\* _check_code_alignment on the manifest's names and the scanned actions.
check_code_alignment(manifest_actions, code_actions_list) ==
    LET M == {manifest_actions[i] : i \in DOMAIN manifest_actions}
        C == {code_actions_list[i].name : i \in DOMAIN code_actions_list}
    IN  [missing_in_code |-> M \ C,
         missing_in_manifest |-> C \ M,
         valid |-> (M \ C = {}) /\ (C \ M = {})]

\* The last scan since the source tree last changed: which method ran, what
\* it returned and did. When it is a scan_tools_directory call that follows
\* another one on the same tree (repeat), prevResult is what the earlier
\* call returned.
NoScan ==
    [done |-> FALSE, kind |-> "none", result |-> <<>>, fromCache |-> FALSE,
     parsed |-> 0, loads |-> 0, repeat |-> FALSE, prevResult |-> <<>>]

Scanned(kind, s, before) ==
    LET repeat == before.done /\ before.kind = "plain" /\ kind = "plain"
    IN  [done |-> TRUE, kind |-> kind, result |-> s.result,
         fromCache |-> s.fromCache, parsed |-> s.parsed, loads |-> s.loads,
         repeat |-> repeat,
         prevResult |-> IF repeat THEN before.result ELSE <<>>]

NoAlign ==
    [done |-> FALSE, missing_in_code |-> {}, missing_in_manifest |-> {},
     valid |-> FALSE, generated |-> FALSE]

\* The clock of the file system moves on.
Tick ==
    /\ now < MaxClock
    /\ now' = now + 1
    /\ UNCHANGED <<tools, cache, use_cache, persisted, scan, align,
                   changedSinceGenerate, changes>>
    /\ UNCHANGED <<rtVars, runVars, exVars, coreVars>>

\* A source file is created or edited; what was scanned and checked before
\* described another tree.
WriteFile ==
    /\ tools.exists
    /\ changes < MaxChanges
    /\ changes' = changes + 1
    /\ \E f \in EditedFiles :
          /\ f \in Present(tools) \/ Cardinality(Present(tools)) < MaxFiles
          /\ tools' = [tools EXCEPT !.mtime[f] = now]
    /\ scan' = NoScan
    /\ align' = NoAlign
    /\ changedSinceGenerate' = TRUE
    /\ UNCHANGED <<now, cache, use_cache, persisted>>
    /\ UNCHANGED <<rtVars, runVars, exVars, coreVars>>

\* A source file is deleted.
RemoveFile ==
    /\ changes < MaxChanges
    /\ changes' = changes + 1
    /\ \E f \in Present(tools) : tools' = [tools EXCEPT !.mtime[f] = 0]
    /\ scan' = NoScan
    /\ align' = NoAlign
    /\ changedSinceGenerate' = TRUE
    /\ UNCHANGED <<now, cache, use_cache, persisted>>
    /\ UNCHANGED <<rtVars, runVars, exVars, coreVars>>

ScanToolsDirectory ==
    /\ LET s == scan_tools_directory(tools, cache, use_cache, now)
       IN  /\ cache' = s.cache
           /\ scan' = Scanned("plain", s, scan)
    /\ UNCHANGED <<tools, now, use_cache, persisted, align,
                   changedSinceGenerate, changes>>
    /\ UNCHANGED <<rtVars, runVars, exVars, coreVars>>

Generate ==
    /\ \E intent \in Intents :
         LET g == generate(tools, cache, use_cache, now, intent, persisted)
         IN  /\ cache' = g.scan.cache
             /\ scan' = Scanned("smart", g.scan, scan)
             /\ persisted' = g.file
             /\ changedSinceGenerate' =
                    IF g.written THEN FALSE ELSE changedSinceGenerate
    /\ UNCHANGED <<tools, now, use_cache, align, changes>>
    /\ UNCHANGED <<rtVars, runVars, exVars, coreVars>>

CheckCodeAlignment ==
    /\ persisted.exists
    /\ LET s == scan_tools_directory(tools, cache, use_cache, now)
           r == check_code_alignment(persisted.actions, s.result)
       IN  /\ cache' = s.cache
           /\ scan' = Scanned("plain", s, scan)
           /\ align' = [done |-> TRUE,
                        missing_in_code |-> r.missing_in_code,
                        missing_in_manifest |-> r.missing_in_manifest,
                        valid |-> r.valid,
                        generated |-> ~changedSinceGenerate]
    /\ UNCHANGED <<tools, now, use_cache, persisted, changedSinceGenerate,
                   changes>>
    /\ UNCHANGED <<rtVars, runVars, exVars, coreVars>>

(***************************************************************************)
(* The schema well-formedness check, _recursive_validate_schema            *)
(* (core/validator.py), on the schema nodes of a manifest.                 *)
(***************************************************************************)

MAX_NESTING_DEPTH == 3

\* Nesting levels of the schema nodes handed to the check.
MaxSchemaHeight == 4

\* A schema node as yaml.safe_load returns it: its "type" entry (Absent: no
\* such key), its "properties" entry (a list of nodes, in the dict's order)
\* and its "items" entry, each with whether the key is there.
SchemaNode(type, hasProperties, properties, hasItems, items) ==
    [type |-> type, hasProperties |-> hasProperties,
     properties |-> properties, hasItems |-> hasItems, items |-> items]

LeafNode(type) == SchemaNode(type, FALSE, <<>>, FALSE, <<>>)

ObjectNode(properties) == SchemaNode("object", TRUE, properties, FALSE, <<>>)

ArrayNode(item) == SchemaNode("array", FALSE, <<>>, TRUE, <<item>>)

\* Nodes without children: a string, a node without type, an object without
\* properties, an array without items, an object with no property.
LeafNodes ==
    { LeafNode("string"), LeafNode(Absent), LeafNode("object"),
      LeafNode("array"), ObjectNode(<<>>) }

\* The siblings a nested node is given: one that passes, one that fails.
SiblingNodes == { LeafNode("string"), LeafNode(Absent) }

RECURSIVE SchemaNodes(_)
SchemaNodes(height) ==
    IF height = 0 THEN LeafNodes
    ELSE LET below == SchemaNodes(height - 1)
         IN  LeafNodes
             \cup { ArrayNode(n) : n \in below }
             \cup { ObjectNode(<<n>>) : n \in below }
             \cup { ObjectNode(<<n, l>>) : n \in below, l \in SiblingNodes }
             \cup { ObjectNode(<<l, n>>) : n \in below, l \in SiblingNodes }

\* What a call returns (ok) and prints: one line per failure, with the
\* context it was found at (the property positions from the root, 0 for
\* items) and what was wrong.
SchemaPassed == [ok |-> TRUE, errors |-> <<>>]

SchemaFailed(context, what) ==
    [ok |-> FALSE, errors |-> <<[context |-> context, what |-> what]>>]

RECURSIVE JoinErrors(_)
JoinErrors(results) ==
    IF results = <<>> THEN <<>>
    ELSE Head(results).errors \o JoinErrors(Tail(results))

\* The loop over the properties with a break at the first failing one.
RECURSIVE FirstFailure(_)
FirstFailure(results) ==
    IF results = <<>> THEN <<>>
    ELSE IF ~Head(results).ok THEN Head(results).errors
    ELSE FirstFailure(Tail(results))

validate_properties_short_circuit(results) ==
    [ok |-> \A i \in DOMAIN results : results[i].ok,
     errors |-> FirstFailure(results)]

\* The loop over the properties: every one is visited, valid is their
\* conjunction.
validate_properties(results) ==
    [ok |-> \A i \in DOMAIN results : results[i].ok,
     errors |-> JoinErrors(results)]

RECURSIVE recursive_validate_schema(_, _, _)
recursive_validate_schema(node, context, depth) ==
    IF depth > MAX_NESTING_DEPTH THEN SchemaFailed(context, "depth")
    ELSE IF node.type = Absent THEN SchemaFailed(context, "type")
    ELSE IF node.type = "object" THEN
        IF ~node.hasProperties THEN SchemaFailed(context, "properties")
        ELSE validate_properties(
                [i \in DOMAIN node.properties |->
                    recursive_validate_schema(node.properties[i],
                                              Append(context, i), depth + 1)])
    ELSE IF node.type = "array" THEN
        IF ~node.hasItems THEN SchemaFailed(context, "items")
        ELSE recursive_validate_schema(node.items[1], Append(context, 0),
                                       depth + 1)
    ELSE SchemaPassed

NoChecked == [done |-> FALSE, result |-> SchemaPassed]

\* _recursive_validate_schema(schema, context, 0), as _check_manifest_content
\* calls it.
ValidateSchema ==
    /\ checked' = [done |-> TRUE,
                   result |-> recursive_validate_schema(givenSchema, <<>>, 0)]
    /\ UNCHANGED <<givenSchema, project, audit, method, action_meta, wtVars>>
    /\ UNCHANGED extVars
    /\ UNCHANGED <<rtVars, runVars, exVars, scVars>>

(***************************************************************************)
(* Type translation: SchemaTranslator.resolve_type (core/translator.py)    *)
(* and CodeScanner._parse_to_meta (core/scanner.py).                       *)
(***************************************************************************)

MaxParams == 2

\* A type hint.
\*   base       the type once an Annotated wrapper is taken off: a builtin
\*              ("str", "int", "float", "bool", "list", "bytes", "dict"),
\*              a class of the plugin ("MyDict", a subclass of dict; "Leaf",
\*              "Node", "Bag", "Outer", "Box", "Wrap", "Broken"), the typing
\*              alias
\*              "Dict[str, Any]", or "None" (hints.get found no annotation)
\*   annotated  the hint is Annotated[base, ...]
\*   first      the first metadata item: a non-empty string ("text"), the
\*              empty string ("empty") or something that is not a string
\*              ("other")
\*   marker     typing.Required is among the metadata
Hint(base, annotated, first, marker) ==
    [base |-> base, annotated |-> annotated, first |-> first,
     marker |-> marker]

Bare(base) == Hint(base, FALSE, "other", FALSE)

Annotated(base, first, marker) == Hint(base, TRUE, first, marker)

\* A declared parameter or class attribute: its name, its hint, and its
\* default: "empty" (none), "None", or a "value".
Decl(name, hint, default) ==
    [name |-> name, hint |-> hint, default |-> default]

Defaults == {"empty", "None", "value"}

\* PYTHON_TO_SYSTEM_MAP.get(py_type_name, DataTypes.OBJECT)
system_type_of(base) ==
    CASE base = "str" -> "string"
      [] base \in {"int", "float"} -> "number"
      [] base = "bool" -> "boolean"
      [] base = "list" -> "array"
      [] base = "bytes" -> "blob"
      [] OTHER -> "object"

\* inspect.isclass: an alias of the typing module and None are not classes.
isclass(base) == base \notin {"None", "Dict[str, Any]"}

\* issubclass(py_type, dict)
issubclass_dict(base) == base \in {"dict", "MyDict"}

\* The classes of the plugin that are not maps; get_type_hints raises on
\* Broken (a forward reference that does not resolve).
hints_raise(base) == base = "Broken"

\* get_type_hints(py_type) with getattr(py_type, name, empty), in declaration
\* order.  Node refers to itself.
ClassFields(base) ==
    CASE base = "Leaf" ->
            << Decl("name", Bare("str"), "empty"),
               Decl("size", Bare("int"), "value") >>
      [] base = "Node" ->
            << Decl("child", Bare("Node"), "empty"),
               Decl("label", Annotated("str", "text", TRUE), "empty") >>
      [] base = "Bag" ->
            << Decl("raw", Bare("dict"), "empty"),
               Decl("sub", Annotated("MyDict", "text", FALSE), "value"),
               Decl("typed", Annotated("Dict[str, Any]", "text", TRUE),
                    "empty"),
               Decl("leaf", Bare("Leaf"), "None") >>
      [] base = "Outer" ->
            << Decl("bag", Bare("Bag"), "empty") >>
      [] base = "Box" ->
            << Decl("leaf", Bare("Leaf"), "empty") >>
      [] base = "Wrap" ->
            << Decl("box", Bare("Box"), "empty") >>
      [] OTHER -> << >>

\* A schema node as resolve_type returns it.  hasRequired, hasDefault and
\* hasProperties say whether the key is in the dict; required_fields is in
\* the dict when it is not empty; properties are kept in insertion order.
TypeNode(type, error, description, hasReq, req, hasDef, hasProps, props, rf) ==
    [type |-> type, error |-> error, description |-> description,
     hasRequired |-> hasReq, required |-> req,
     hasDefault |-> hasDef, hasProperties |-> hasProps,
     properties |-> props, required_fields |-> rf]

InvalidNode(error) ==
    TypeNode("INVALID", error, "", FALSE, FALSE, FALSE, FALSE, << >>, << >>)

\* The depth test taken one level later.
too_deep_one_later(depth) == depth > MAX_NESTING_DEPTH + 1

\* if depth > MAX_NESTING_DEPTH
too_deep(depth) == depth > MAX_NESTING_DEPTH

\* prop_res.get("required")
truthy_required(node) == node.hasRequired /\ node.required

RECURSIVE resolve_type(_, _, _)
resolve_type(hint, depth, default_val) ==
    IF too_deep(depth) THEN InvalidNode("too_deep")
    ELSE
    LET description == IF hint.annotated /\ hint.first \in {"text", "empty"}
                       THEN hint.first ELSE "empty"
        is_required == hint.annotated /\ hint.marker
        system_type == system_type_of(hint.base)
        hasDefault == default_val \notin {"empty", "None"}
        fields == ClassFields(hint.base)
        prop_res == [i \in DOMAIN fields |->
                        resolve_type(fields[i].hint, depth + 1,
                                     fields[i].default)]
        kept == [i \in DOMAIN fields |->
                    [name |-> fields[i].name,
                     node |-> IF truthy_required(prop_res[i])
                              THEN [prop_res[i] EXCEPT !.hasRequired = FALSE,
                                                       !.required = FALSE]
                              ELSE prop_res[i]]]
        listed == SelectSeq([i \in DOMAIN fields |->
                                [name |-> fields[i].name,
                                 node |-> prop_res[i]]],
                            LAMBDA f : truthy_required(f.node))
        required_fields == [i \in DOMAIN listed |-> listed[i].name]
    IN  IF system_type = "object" /\ isclass(hint.base)
        THEN IF issubclass_dict(hint.base) THEN InvalidNode("dict")
             ELSE IF hints_raise(hint.base) THEN InvalidNode("class_failed")
             ELSE TypeNode(system_type, "", description, depth = 0,
                           depth = 0 /\ is_required, hasDefault,
                           TRUE, kept, required_fields)
        ELSE TypeNode(system_type, "", description, depth = 0,
                      depth = 0 /\ is_required, hasDefault,
                      FALSE, << >>, << >>)

\* The diagnostics _parse_to_meta records for one parameter.
parameter_warnings(d) ==
    IF d.hint.base = "None" /\ ~d.hint.annotated THEN << >>
    ELSE IF ~d.hint.annotated
    THEN << [type |-> "parameter_annotation", param |-> d.name] >>
    ELSE IF d.hint.first = "other"
    THEN << [type |-> "parameter_description", param |-> d.name] >>
    ELSE << >>

\* _parse_to_meta: inputSchema's properties and required list, the
\* outputSchema and the recorded diagnostics.  When get_type_hints raises on
\* the method (resolvable is false) every parameter is read as unannotated.
parse_to_meta(m) ==
    LET seen(d) == IF m.resolvable THEN d
                   ELSE Decl(d.name, Bare("None"), d.default)
        params == [i \in DOMAIN m.params |-> seen(m.params[i])]
        needed == SelectSeq(params, LAMBDA d : d.default = "empty")
    IN  [done |-> TRUE,
         properties |-> [i \in DOMAIN params |->
                            [name |-> params[i].name,
                             node |-> resolve_type(params[i].hint, 0,
                                                   params[i].default)]],
         required |-> [i \in DOMAIN needed |-> needed[i].name],
         outputSchema |-> resolve_type(IF m.resolvable THEN m.returns
                                       ELSE Bare("None"), 0, "empty"),
         validation_warnings |->
            Flatten([i \in DOMAIN params |-> parameter_warnings(params[i])])]

\* A node of the contract as the schema check reads it from manifest.yaml:
\* the "type" and "properties" entries; resolve_type writes no "items".
RECURSIVE as_schema(_)
as_schema(node) ==
    SchemaNode(node.type, node.hasProperties,
               [i \in DOMAIN node.properties |->
                   as_schema(node.properties[i].node)],
               FALSE, <<>>)

\* "inputSchema": {"type": "object", "properties": properties, ...}
input_schema(m) ==
    ObjectNode([i \in DOMAIN m.properties |-> as_schema(m.properties[i].node)])

\* The loop of _check_manifest_content over one action: the inputSchema and
\* the outputSchema are both checked from depth 0.
check_action_schemas(m) ==
    validate_properties(
        << recursive_validate_schema(input_schema(m), <<"inputSchema">>, 0),
           recursive_validate_schema(as_schema(m.outputSchema),
                                     <<"outputSchema">>, 0) >>)

\* _check_manifest_content on the contract of the parsed action.
CheckManifestContent ==
    /\ action_meta.done
    /\ ~checked.done
    /\ checked' = [done |-> TRUE, result |-> check_action_schemas(action_meta)]
    /\ UNCHANGED <<givenSchema, project, audit, method, action_meta, wtVars>>
    /\ UNCHANGED extVars
    /\ UNCHANGED <<rtVars, runVars, exVars, scVars>>

\* validate_actions_annotations on one action: one error per
\* parameter_annotation or parameter_description warning.
validate_actions_annotations(m) ==
    SelectSeq(m.validation_warnings,
              LAMBDA w : w.type \in {"parameter_annotation",
                                     "parameter_description"})

NoMethod == [params |-> << >>, returns |-> Bare("None"), resolvable |-> TRUE]

NotParsed ==
    [done |-> FALSE, properties |-> << >>, required |-> << >>,
     outputSchema |-> InvalidNode("none"), validation_warnings |-> << >>]

ParseToMeta ==
    /\ ~action_meta.done
    /\ action_meta' = parse_to_meta(method)
    /\ UNCHANGED <<method, givenSchema, checked, project, audit, wtVars>>
    /\ UNCHANGED extVars
    /\ UNCHANGED <<rtVars, runVars, exVars, scVars>>

(***************************************************************************)
(* The full audit, ProjectValidator.check_all (core/validator.py).         *)
(***************************************************************************)

\* The project files the audit reads besides the sources.
\*   requirements  requirements.txt: "missing", "ok", or "bad" (a line
\*                 without a version constraint, or an unreadable file)
\*   manifest      manifest.yaml: "missing", "unparsable" (yaml.safe_load
\*                 raises), "empty" (it loads as None) or "data" (a mapping)
\*   plugin_info   of a mapping: "absent", "incomplete" (a required field
\*                 is missing) or "complete"
\*   hasActions    the mapping has an "actions" key; the names listed under
\*                 it are persisted.actions
\*   inputSchema   the inputSchema of each listed action
Projects ==
    [requirements : {"missing", "ok", "bad"},
     manifest : {"missing", "unparsable", "empty", "data"},
     plugin_info : {"absent", "incomplete", "complete"},
     hasActions : BOOLEAN,
     inputSchema : {ObjectNode(<<LeafNode("string")>>), LeafNode("object")}]

NoProject ==
    [requirements |-> "missing", manifest |-> "missing",
     plugin_info |-> "absent", hasActions |-> FALSE,
     inputSchema |-> LeafNode("object")]

\* The name lists a manifest.yaml may hold.
ManifestNameLists == {<<>>, <<"foo">>, <<"bar", "foo">>, <<"wrn">>}

SubChecks == {"requirements", "alignment", "content", "annotations"}

check_requirements(p) == p.requirements # "bad"

\* _check_manifest_content on a manifest that loaded as a mapping or as None.
check_manifest_content(p, names) ==
    IF p.manifest = "empty" THEN FALSE
    ELSE IF p.plugin_info # "complete" THEN FALSE
    ELSE IF ~p.hasActions THEN FALSE
    ELSE IF names = <<>> THEN FALSE
    ELSE \A i \in DOMAIN names :
            recursive_validate_schema(p.inputSchema, <<>>, 0).ok

\* _check_parameter_annotations on what its scan returned.
check_parameter_annotations(acts) == validate_actions(acts) = {}

\* What a check_all call did: how it ended ("true", "false", or "raised"),
\* the sub-checks it ran, the ones that failed, and the scanner's cache and
\* last scan and the alignment report it left.
AuditOutcome(outcome, ran, failed, c, sc, al) ==
    [done |-> TRUE, outcome |-> outcome, ran |-> ran, failed |-> failed,
     cache |-> c, scan |-> sc, align |-> al]

NoAudit ==
    [done |-> FALSE, outcome |-> "none", ran |-> {}, failed |-> {},
     cache |-> NoCache, scan |-> NoScan, align |-> NoAlign]

check_all(p, names, t, c, uc, clock, sc, al, fresh) ==
    LET reqFailed == IF check_requirements(p) THEN {} ELSE {"requirements"}
        manifest_actions == IF p.hasActions THEN names ELSE <<>>
        s1 == scan_tools_directory(t, c, uc, clock)
        a == check_code_alignment(manifest_actions, s1.result)
        s2 == scan_tools_directory(t, s1.cache, uc, clock)
        sc1 == Scanned("plain", s1, sc)
        failed ==
            reqFailed
            \cup (IF a.valid THEN {} ELSE {"alignment"})
            \cup (IF check_manifest_content(p, names) THEN {}
                  ELSE {"content"})
            \cup (IF check_parameter_annotations(s2.result) THEN {}
                  ELSE {"annotations"})
    IN  IF p.manifest \in {"missing", "unparsable"}
        THEN AuditOutcome("false", {"requirements"}, reqFailed, c, sc, al)
        ELSE IF p.manifest = "empty"
        THEN AuditOutcome("raised", {"requirements", "alignment"},
                          reqFailed, c, sc, al)
        ELSE AuditOutcome(IF failed = {} THEN "true" ELSE "false",
                          SubChecks, failed, s2.cache,
                          Scanned("plain", s2, sc1),
                          [done |-> TRUE,
                           missing_in_code |-> a.missing_in_code,
                           missing_in_manifest |-> a.missing_in_manifest,
                           valid |-> a.valid,
                           generated |-> fresh])

CheckAll ==
    /\ LET r == check_all(project, persisted.actions, tools, cache,
                          use_cache, now, scan, align,
                          ~changedSinceGenerate)
       IN  /\ audit' = r
           /\ cache' = r.cache
           /\ scan' = r.scan
           /\ align' = r.align
    /\ UNCHANGED <<tools, now, use_cache, persisted, changedSinceGenerate,
                   changes, project, givenSchema, checked, method,
                   action_meta, wtVars, extVars>>
    /\ UNCHANGED <<rtVars, runVars, exVars>>

(***************************************************************************)
(* The watcher (core/watcher.py): the observer thread and the main loop    *)
(* both start a sync, and every sync that rescans runs                     *)
(* CodeScanner._enrich_with_types (core/scanner.py).                       *)
(***************************************************************************)

MaxEvents == 2
MaxLoads == 2

Threads == {"observer", "main"}

\* A thread is "idle" (outside _enrich_with_types) or at one of its steps:
\*   "check_path"  before `if tools_path not in sys.path`
\*   "insert"      before sys.path.insert, when absent was seen
\*   "loading"     in the loop, left module loads to go
\*   "remove"      in the finally block, before sys.path.remove when present
\*                 was seen
\* failed: sys.path.remove raised ValueError in the thread's last pass.
ThreadAt(pc, seen, left, failed) ==
    [pc |-> pc, seen |-> seen, left |-> left, failed |-> failed]

IdleThread == ThreadAt("idle", FALSE, 0, FALSE)

\* EventQueue.get_events empties the queue; a non-empty batch starts
\* _trigger_incremental_sync in the calling thread, whose rescan enters
\* _enrich_with_types.
StartSync(t) ==
    /\ event_queue' = 0
    /\ threads' = [threads EXCEPT ![t] = ThreadAt("check_path", FALSE, 0, FALSE)]

\* OptimizedFileHandler._handle_file_event in the observer thread: add_event
\* queues the event unless the cooldown or the de-duplication drops it, then
\* _process_batch runs if the batch interval has passed.  The elapsed times
\* are free: a sync lasts as long as the modules it loads.
HandleFileEvent ==
    /\ threads["observer"].pc = "idle"
    /\ \E queued \in BOOLEAN, batch \in BOOLEAN :
          LET q == IF queued /\ event_queue < MaxEvents
                   THEN event_queue + 1 ELSE event_queue
          IN  IF batch /\ q > 0
              THEN StartSync("observer")
              ELSE /\ event_queue' = q
                   /\ UNCHANGED threads
    /\ UNCHANGED sys_path
    /\ UNCHANGED <<givenSchema, checked, project, audit, method, action_meta>>
    /\ UNCHANGED extVars
    /\ UNCHANGED <<rtVars, runVars, exVars, scVars>>

\* PluginWatcher.start_watching, one turn of the main loop with events.
Poll ==
    /\ threads["main"].pc = "idle"
    /\ event_queue > 0
    /\ StartSync("main")
    /\ UNCHANGED sys_path
    /\ UNCHANGED <<givenSchema, checked, project, audit, method, action_meta>>
    /\ UNCHANGED extVars
    /\ UNCHANGED <<rtVars, runVars, exVars, scVars>>

\* `if tools_path not in sys.path:`
CheckPath(t) ==
    /\ threads[t].pc = "check_path"
    /\ threads' = [threads EXCEPT ![t] =
                      ThreadAt("insert", sys_path = 0, 0, FALSE)]
    /\ UNCHANGED <<event_queue, sys_path>>
    /\ UNCHANGED <<givenSchema, checked, project, audit, method, action_meta>>
    /\ UNCHANGED extVars
    /\ UNCHANGED <<rtVars, runVars, exVars, scVars>>

\* `sys.path.insert(0, tools_path)`, then the loop over the signatures.
InsertPath(t) ==
    /\ threads[t].pc = "insert"
    /\ sys_path' = IF threads[t].seen THEN sys_path + 1 ELSE sys_path
    /\ \E n \in 1..MaxLoads :
          threads' = [threads EXCEPT ![t] = ThreadAt("loading", FALSE, n, FALSE)]
    /\ UNCHANGED event_queue
    /\ UNCHANGED <<givenSchema, checked, project, audit, method, action_meta>>
    /\ UNCHANGED extVars
    /\ UNCHANGED <<rtVars, runVars, exVars, scVars>>

\* `module = self._load_module(abs_file_path)` for one signature.
LoadModule(t) ==
    /\ threads[t].pc = "loading"
    /\ threads[t].left > 0
    /\ threads' = [threads EXCEPT ![t].left = @ - 1]
    /\ UNCHANGED <<event_queue, sys_path>>
    /\ UNCHANGED <<givenSchema, checked, project, audit, method, action_meta>>
    /\ UNCHANGED extVars
    /\ UNCHANGED <<rtVars, runVars, exVars, scVars>>

\* finally: `if tools_path in sys.path:`
CheckPresent(t) ==
    /\ threads[t].pc = "loading"
    /\ threads[t].left = 0
    /\ threads' = [threads EXCEPT ![t] =
                      ThreadAt("remove", sys_path > 0, 0, FALSE)]
    /\ UNCHANGED <<event_queue, sys_path>>
    /\ UNCHANGED <<givenSchema, checked, project, audit, method, action_meta>>
    /\ UNCHANGED extVars
    /\ UNCHANGED <<rtVars, runVars, exVars, scVars>>

\* `sys.path.remove(tools_path)`: ValueError when the entry is gone.
RemovePath(t) ==
    /\ threads[t].pc = "remove"
    /\ sys_path' = IF threads[t].seen /\ sys_path > 0
                   THEN sys_path - 1 ELSE sys_path
    /\ threads' = [threads EXCEPT ![t] =
                      ThreadAt("idle", FALSE, 0,
                               threads[t].seen /\ sys_path = 0)]
    /\ UNCHANGED event_queue
    /\ UNCHANGED <<givenSchema, checked, project, audit, method, action_meta>>
    /\ UNCHANGED extVars
    /\ UNCHANGED <<rtVars, runVars, exVars, scVars>>

\* No watcher runs.
WatchIdle ==
    /\ event_queue = 0
    /\ sys_path = 0
    /\ threads = [t \in Threads |-> IdleThread]

(***************************************************************************)
(* Successive execute calls on one ActionContext: the REPL's run command   *)
(* and watch-mode re-execution hand the same context, hence the same       *)
(* RealtimeCollector, to every call (runner/native_runner.py).             *)
(***************************************************************************)

MaxRuns == 2

\* The for loop of execute over the rows a generator yields, the stop event
\* not set.
RECURSIVE feed_rows(_, _, _)
feed_rows(c, sizes, i) ==
    IF i > Len(sizes) THEN c
    ELSE feed_rows(execute_row(c, FALSE, Row(sizes, i)).ctx, sizes, i + 1)

\* PluginRuntime.execute on a generator handler: what it returns, and the
\* part list it handed to merge_parts (none when it merged nothing).
execute_generator(c, sizes) ==
    LET g == get_result(feed_rows(c, sizes, 1))
        merged == Len(g.ctx.merges) > Len(c.merges)
    IN  [ctx |-> g.ctx,
         run |-> [rows |-> [i \in DOMAIN sizes |-> Row(sizes, i)],
                  result |-> g.result,
                  merged |-> merged,
                  parts |-> IF merged THEN g.ctx.merges[Len(g.ctx.merges)]
                            ELSE <<>>]]

NewSession == [ctx |-> NewContext, runs |-> <<>>]

\* One `run <action>` line of the REPL on a generator action.
RunCommand ==
    /\ Len(session.runs) < MaxRuns
    /\ \E sizes \in RowSeqs :
          LET e == execute_generator(session.ctx, sizes)
          IN  session' = [ctx |-> e.ctx, runs |-> Append(session.runs, e.run)]
    /\ UNCHANGED <<givenSchema, checked, project, audit, method, action_meta>>
    /\ UNCHANGED <<search_path, ast_scan, watch_events, cache_io>>
    /\ UNCHANGED <<rtVars, runVars, exVars, scVars, wtVars>>

(***************************************************************************)
(* sys.path as the list it is, around PluginRuntime._prepare and one call  *)
(* of CodeScanner._enrich_with_types in one thread.                        *)
(***************************************************************************)

PathEntries == {"stdlib", "site", "libs", "tools"}

\* The lists of distinct entries: what the interpreter starts with.
PathLists ==
    {q \in UNION {[1..n -> PathEntries] : n \in 0..3} :
        \A i, j \in DOMAIN q : q[i] = q[j] => i = j}

\* `x in sys.path`
on_path(path, x) == \E i \in DOMAIN path : path[i] = x

\* `sys.path.insert(0, x)`
path_insert_first(path, x) == <<x>> \o path

\* `sys.path.remove(x)` with x on the path: the first occurrence goes.
path_remove(path, x) ==
    LET k == CHOOSE i \in DOMAIN path :
                 path[i] = x /\ \A j \in 1..(i - 1) : path[j] # x
    IN  SubSeq(path, 1, k - 1) \o SubSeq(path, k + 1, Len(path))

\* PluginRuntime._prepare: libs first, then tools, each inserted at the front
\* when the directory exists and is not on the path.
prepare_paths(path, libsExists, toolsExists) ==
    LET p1 == IF libsExists /\ ~on_path(path, "libs")
              THEN path_insert_first(path, "libs") ELSE path
    IN  IF toolsExists /\ ~on_path(p1, "tools")
        THEN path_insert_first(p1, "tools") ELSE p1

\* The finally block of _enrich_with_types.
restore_path(path) ==
    IF on_path(path, "tools") THEN path_remove(path, "tools") ELSE path

\* _enrich_with_types on sys.path: the insert before the try, the loop (a
\* failing load is caught and printed, the loop goes on), the finally block.
enrich_with_types_path(path, loadFails) ==
    LET inserted == ~on_path(path, "tools")
        p1 == IF inserted THEN path_insert_first(path, "tools") ELSE path
    IN  [path |-> restore_path(p1),
         loading |-> p1,
         warned |-> loadFails]

SearchPath(path, found, pc, warned) ==
    [path |-> path, found |-> found, pc |-> pc, warned |-> warned]

\* PluginRuntime(source_path) in the process that scans later.
Prepare ==
    /\ search_path.pc = "start"
    /\ \E libsExists \in BOOLEAN, toolsExists \in BOOLEAN :
          search_path' =
              SearchPath(prepare_paths(search_path.path, libsExists, toolsExists),
                         <<>>, "prepared", FALSE)
    /\ UNCHANGED <<session, ast_scan, watch_events, cache_io>>
    /\ UNCHANGED <<givenSchema, checked, project, audit, method, action_meta>>
    /\ UNCHANGED <<rtVars, runVars, exVars, scVars, wtVars>>

\* One call of _enrich_with_types, its loads failing or not.
EnrichWithTypes ==
    /\ search_path.pc \in {"start", "prepared"}
    /\ \E loadFails \in BOOLEAN :
          LET e == enrich_with_types_path(search_path.path, loadFails)
          IN  search_path' =
                  SearchPath(e.path, search_path.path, "done", e.warned)
    /\ UNCHANGED <<session, ast_scan, watch_events, cache_io>>
    /\ UNCHANGED <<givenSchema, checked, project, audit, method, action_meta>>
    /\ UNCHANGED <<rtVars, runVars, exVars, scVars, wtVars>>

(***************************************************************************)
(* The syntax pass over one file: OptimizedASTScanner, an ast.NodeVisitor. *)
(***************************************************************************)

\* A `def` or `async def` statement with its decorator: "action" (@action),
\* "call" (@action(...)), "attr_call" (@sdk.action(...)), "other" (another
\* name) or "none".
FunctionDef(name, is_async, decorator) ==
    [kind |-> "def", name |-> name, is_async |-> is_async,
     decorator |-> decorator, body |-> <<>>]

\* A `class` statement with its base: "name" (BasePlugin), "attr"
\* (sdk.BasePlugin) or "other", and the statements of its body.
ClassDef(name, base, body) ==
    [kind |-> "class", name |-> name, base |-> base, body |-> body]

inherits_base_plugin(class_node) == class_node.base \in {"name", "attr"}

has_action_decorator(func_node) == func_node.decorator \in {"action", "call"}

extract_action_from_ast(func_node, class_name) ==
    [name |-> func_node.name, class_name |-> class_name,
     is_async |-> func_node.is_async]

NoClass == "None"

\* The visitor: the signatures recorded so far and current_class.
NewScanner == [actions |-> <<>>, current_class |-> NoClass]

\* visit_ClassDef after generic_visit: self.current_class = None
leave_class(st) == [st EXCEPT !.current_class = NoClass]

RECURSIVE visit(_, _)
RECURSIVE generic_visit(_, _)
\* generic_visit on the statements of a body, in order.
generic_visit(body, st) ==
    IF body = <<>> THEN st
    ELSE generic_visit(Tail(body), visit(Head(body), st))

\* visit_ClassDef, visit_FunctionDef and visit_AsyncFunctionDef.
visit(node, st) ==
    IF node.kind = "class"
    THEN IF inherits_base_plugin(node)
         THEN leave_class(
                  generic_visit(node.body,
                                [st EXCEPT !.current_class = node.name]))
         ELSE st
    ELSE IF st.current_class # NoClass /\ has_action_decorator(node)
         THEN [st EXCEPT !.actions =
                  Append(@, extract_action_from_ast(node, st.current_class))]
         ELSE st

\* extract_action_signatures on a file that parses: scanner.visit(tree).
scan_module(body) == generic_visit(body, NewScanner).actions

NotScanned == [body |-> <<>>, done |-> FALSE, actions |-> <<>>]

ExtractActionSignatures ==
    /\ ~ast_scan.done
    /\ ast_scan' = [ast_scan EXCEPT !.done = TRUE,
                                    !.actions = scan_module(ast_scan.body)]
    /\ UNCHANGED <<session, search_path, watch_events, cache_io>>
    /\ UNCHANGED <<givenSchema, checked, project, audit, method, action_meta>>
    /\ UNCHANGED <<rtVars, runVars, exVars, scVars, wtVars>>

(***************************************************************************)
(* The watcher's EventQueue, filled by the observer thread's handler and   *)
(* emptied by the handler's batches and by the main loop.  Every method    *)
(* of the queue runs under its lock, so each is one step.                  *)
(***************************************************************************)

\* EventQueue(max_size=100): the model runs with a short deque.
EVENT_QUEUE_MAX_SIZE == 2

WatchedPaths == {"a.py", "b.py", "c.py"}

\* deque(maxlen=max_size).append: a full deque drops its oldest entry.
deque_append(queue, x) ==
    IF Len(queue) >= EVENT_QUEUE_MAX_SIZE THEN Append(Tail(queue), x)
    ELSE Append(queue, x)

\* An EventQueue: the deque, _processed_files, and whether less than
\* _cooldown has passed since _last_process_time.
NewEventQueue == [queue |-> <<>>, processed_files |-> {}, cooling |-> FALSE]

add_event(q, file_path) ==
    IF q.cooling THEN q
    ELSE IF file_path \in q.processed_files THEN q
    ELSE [q EXCEPT !.queue = deque_append(@, file_path),
                   !.processed_files = @ \cup {file_path}]

get_events(q) ==
    [events |-> q.queue,
     q |-> [queue |-> <<>>, processed_files |-> {}, cooling |-> TRUE]]

\* pending: the paths of the events delivered to the handler since the last
\* batch that held them; batch: the last list handed to
\* _trigger_incremental_sync.
NoEvents == [q |-> NewEventQueue, pending |-> {}, batch |-> <<>>]

\* A non-empty list of events goes to _trigger_incremental_sync.
Batched(w, g) ==
    [q |-> g.q,
     pending |-> w.pending \ {g.events[i] : i \in DOMAIN g.events},
     batch |-> IF g.events # <<>> THEN g.events ELSE w.batch]

\* _handle_file_event for a .py path under the root: add_event, then
\* _process_batch when the batch interval has passed.
OnFileEvent ==
    /\ \E file_path \in WatchedPaths, interval_passed \in BOOLEAN :
          LET added == [watch_events EXCEPT
                           !.q = add_event(@, file_path),
                           !.pending = @ \cup {file_path}]
          IN  watch_events' =
                  IF interval_passed THEN Batched(added, get_events(added.q))
                  ELSE added
    /\ UNCHANGED <<session, search_path, ast_scan, cache_io>>
    /\ UNCHANGED <<givenSchema, checked, project, audit, method, action_meta>>
    /\ UNCHANGED <<rtVars, runVars, exVars, scVars, wtVars>>

\* One turn of the main loop of start_watching: sleep, get_events, sync.
MainLoopPoll ==
    /\ watch_events' = Batched(watch_events, get_events(watch_events.q))
    /\ UNCHANGED <<session, search_path, ast_scan, cache_io>>
    /\ UNCHANGED <<givenSchema, checked, project, audit, method, action_meta>>
    /\ UNCHANGED <<rtVars, runVars, exVars, scVars, wtVars>>

\* _cooldown seconds have passed since the last get_events.
CooldownPasses ==
    /\ watch_events.q.cooling
    /\ watch_events' = [watch_events EXCEPT !.q.cooling = FALSE]
    /\ UNCHANGED <<session, search_path, ast_scan, cache_io>>
    /\ UNCHANGED <<givenSchema, checked, project, audit, method, action_meta>>
    /\ UNCHANGED <<rtVars, runVars, exVars, scVars, wtVars>>

(***************************************************************************)
(* One directory's cache file under concurrent CacheManager.save_cache and *)
(* load_cache calls, step by step: the lock of the writer's CacheManager,  *)
(* open(cache_file, 'w'), the writes json.dump's buffer flushes, close.    *)
(***************************************************************************)

\* The callers of save_cache: two threads that share one CodeScanner, hence
\* one CacheManager and one lock, and one with a CacheManager of its own.
Writers == {"w1", "w2", "w3"}

cache_mgr(w) == IF w = "w3" THEN "other" ELSE "shared"

CacheManagers == {cache_mgr(w) : w \in Writers}

\* The Action lists the scans save: two scans of one tree whose actions
\* changed in between.
SavedLists == { <<"foo_v1", "bar_v1">>, <<"foo_v2", "bar_v2">> }

\* json.dump(data, f): the text in the pieces its writes reach the file in.
json_text(data) == <<"[">> \o data \o <<"]">>

\* A write of one piece at a file offset: the text in front of it stays,
\* a gap is filled with NUL.
write_at(text, pos, piece) ==
    [i \in 1..(IF pos > Len(text) THEN pos ELSE Len(text)) |->
        IF i = pos THEN piece
        ELSE IF i <= Len(text) THEN text[i] ELSE "NUL"]

\* json.load(f): the list when the text is one, else JSONDecodeError.
json_load(text) ==
    IF /\ Len(text) >= 2
       /\ text[1] = "["
       /\ text[Len(text)] = "]"
       /\ \A i \in 2..(Len(text) - 1) : text[i] \notin {"[", "]", "NUL"}
    THEN [kind |-> "list", data |-> SubSeq(text, 2, Len(text) - 1)]
    ELSE [kind |-> "None", data |-> <<>>]

\* load_cache: None when the file is missing or does not decode.
load_cache_file(file) ==
    IF ~file.exists THEN [kind |-> "None", data |-> <<>>]
    ELSE json_load(file.text)

WriterAt(pc, data, offset) == [pc |-> pc, data |-> data, offset |-> offset]

NoCacheIO ==
    [file |-> [exists |-> FALSE, text |-> <<>>],
     locks |-> [m \in CacheManagers |-> "free"],
     writers |-> [w \in Writers |-> WriterAt("idle", <<>>, 0)],
     loaded |-> [kind |-> "no_call", data |-> <<>>]]

\* save_cache: `with self._lock:`
AcquireLock(w) ==
    /\ cache_io.writers[w].pc = "idle"
    /\ cache_io.locks[cache_mgr(w)] = "free"
    /\ \E data \in SavedLists :
          cache_io' = [cache_io EXCEPT
                          !.locks[cache_mgr(w)] = w,
                          !.writers[w] = WriterAt("locked", data, 0)]
    /\ UNCHANGED <<session, search_path, ast_scan, watch_events>>
    /\ UNCHANGED <<givenSchema, checked, project, audit, method, action_meta>>
    /\ UNCHANGED <<rtVars, runVars, exVars, scVars, wtVars>>

\* save_cache: `open(cache_file, 'w')` creates or truncates the file.
OpenForWrite(w) ==
    /\ cache_io.writers[w].pc = "locked"
    /\ cache_io' = [cache_io EXCEPT
                       !.file = [exists |-> TRUE, text |-> <<>>],
                       !.writers[w].pc = "writing"]
    /\ UNCHANGED <<session, search_path, ast_scan, watch_events>>
    /\ UNCHANGED <<givenSchema, checked, project, audit, method, action_meta>>
    /\ UNCHANGED <<rtVars, runVars, exVars, scVars, wtVars>>

\* save_cache: one write of json.dump's text at the writer's file offset.
WritePiece(w) ==
    /\ cache_io.writers[w].pc = "writing"
    /\ cache_io.writers[w].offset < Len(json_text(cache_io.writers[w].data))
    /\ LET at == cache_io.writers[w].offset + 1
       IN  cache_io' = [cache_io EXCEPT
                           !.file.text =
                               write_at(@, at,
                                        json_text(cache_io.writers[w].data)[at]),
                           !.writers[w].offset = at]
    /\ UNCHANGED <<session, search_path, ast_scan, watch_events>>
    /\ UNCHANGED <<givenSchema, checked, project, audit, method, action_meta>>
    /\ UNCHANGED <<rtVars, runVars, exVars, scVars, wtVars>>

\* save_cache: the file is closed and the lock released.
CloseAndRelease(w) ==
    /\ cache_io.writers[w].pc = "writing"
    /\ cache_io.writers[w].offset = Len(json_text(cache_io.writers[w].data))
    /\ cache_io' = [cache_io EXCEPT
                       !.locks[cache_mgr(w)] = "free",
                       !.writers[w].pc = "done"]
    /\ UNCHANGED <<session, search_path, ast_scan, watch_events>>
    /\ UNCHANGED <<givenSchema, checked, project, audit, method, action_meta>>
    /\ UNCHANGED <<rtVars, runVars, exVars, scVars, wtVars>>

\* load_cache by any scanner: it takes no lock.
LoadCache ==
    /\ cache_io' = [cache_io EXCEPT !.loaded = load_cache_file(cache_io.file)]
    /\ UNCHANGED <<session, search_path, ast_scan, watch_events>>
    /\ UNCHANGED <<givenSchema, checked, project, audit, method, action_meta>>
    /\ UNCHANGED <<rtVars, runVars, exVars, scVars, wtVars>>

\* No session is open, no path list is followed, no file is scanned, no
\* event came and nobody touches the cache file.
ExtIdle ==
    /\ session = NewSession
    /\ search_path = SearchPath(<<>>, <<>>, "start", FALSE)
    /\ ast_scan = NotScanned
    /\ watch_events = NoEvents
    /\ cache_io = NoCacheIO

\* Nothing was handed to the schema check or audited.
CoreIdle ==
    /\ givenSchema = LeafNode("string")
    /\ checked = NoChecked
    /\ project = NoProject
    /\ audit = NoAudit
    /\ method = NoMethod
    /\ action_meta = NotParsed
    /\ WatchIdle
    /\ ExtIdle

\* The scanner's side before anything was scanned: no tools directory, no
\* cache file, no manifest.yaml.
ScanIdle ==
    /\ tools = [exists |-> FALSE, mtime |-> NoFiles]
    /\ now = 1
    /\ cache = NoCache
    /\ use_cache = TRUE
    /\ persisted = NoManifestFile
    /\ scan = NoScan
    /\ align = NoAlign
    /\ changedSinceGenerate = FALSE
    /\ changes = 0

InitRuntime ==
    /\ constructed = FALSE
    /\ manifest = <<>>
    /\ actions = EmptyDict
    /\ lookup = NoLookup
    /\ run = NoRun
    /\ inv = NoInv
    /\ ctx = NewContext
    /\ stop = FALSE
    /\ ScanIdle
    /\ CoreIdle

NextRuntime == Construct \/ GetActionMetadata

SpecRuntime == InitRuntime /\ [][NextRuntime]_vars

\* C2: after construction from a contract, get_action_metadata(name) returns
\* the contract's record named name for every name in the contract's actions
\* list, and reports not-found exactly for the names absent from it.
C2_LookupReturnsContractAction ==
    lookup.done =>
        /\ lookup.found <=> lookup.name \in ContractNames(manifest)
        /\ lookup.found =>
              \E i \in DOMAIN manifest :
                  manifest[i].name = lookup.name /\ manifest[i] = lookup.meta

\* NativeRunner.__init__ is handed its runtime by the caller; the table its
\* lookups consult is an input of the runner.
InitRunner ==
    /\ constructed = TRUE
    /\ manifest = <<>>
    /\ actions \in Dicts
    /\ lookup = NoLookup
    /\ run = NoRun
    /\ inv = NoInv
    /\ ctx = NewContext
    /\ stop = FALSE
    /\ ScanIdle
    /\ CoreIdle

NextRunner == RunSingle \/ ProcessLine

SpecRunner == InitRunner /\ [][NextRunner]_vars

\* C1: in every dispatch of a resolved action through the native runner
\* (single run and the REPL run command), also when no arguments are
\* supplied, arguments that violate the action's inputSchema (missing
\* required field, wrong type, value outside the enum) end the dispatch with
\* a contract violation naming the field path, after validation and without
\* the handler being invoked.
C1_ViolationRefusedBeforeInvoke ==
    (run.resolved /\ run.outcome # "JsonError"
        /\ ~validate(run.params, run.meta.inputSchema).ok) =>
            /\ run.validated
            /\ run.outcome = "ContractViolation"
            /\ run.path # ""
            /\ ~run.invoked

InitExec ==
    /\ constructed = TRUE
    /\ manifest = <<>>
    /\ actions = EmptyDict
    /\ lookup = NoLookup
    /\ run = NoRun
    /\ inv = NoInv
    /\ ctx = NewContext
    /\ stop = FALSE
    /\ ScanIdle
    /\ CoreIdle

NextExec ==
    \/ SetStop
    \/ Invoke
    \/ HandlerRaises
    \/ ExecuteRow
    \/ ExecuteFinish
    \/ StreamRow
    \/ StreamFinish

SpecExec == InitExec /\ [][NextExec]_vars

(***************************************************************************)
(* Execution: the collector's flush policy, the result, cancellation,      *)
(* lifecycle events, streaming                                             *)
(***************************************************************************)

\* The rows the collector took so far, in order: the stored parts, then the
\* buffer.
Collected(c) == Flatten(c.parts) \o c.buffer

\* The first n rows the handler yields.
FirstRows(h, n) == [i \in 1..n |-> Row(h.rows, i)]

ExecGen == inv.mode = "execute" /\ inv.handler.gen

ByBytes(rows) == SumSizes(rows) >= AUTO_SPILL_THRESHOLD_BYTES
ByBytesOrCount(rows) == ByBytes(rows) \/ Len(rows) >= ROW_GROUP_SIZE

\* While the sequence is consumed the flushes happened exactly where
\* Trig(rows appended since the last flush) first held: every part satisfies
\* Trig and none of its proper prefixes does, and the buffer does not.
FlushedExactlyWhen(Trig(_)) ==
    (ExecGen /\ inv.pc = "running") =>
        /\ ctx.bytes = SumSizes(ctx.buffer)
        /\ ~Trig(ctx.buffer)
        /\ \A k \in DOMAIN ctx.parts :
              /\ Trig(ctx.parts[k])
              /\ \A n \in 1..(Len(ctx.parts[k]) - 1) :
                    ~Trig(SubSeq(ctx.parts[k], 1, n))
        /\ Len(SelectSeq(ctx.events, LAMBDA e : e = "spill")) = Len(ctx.parts)
        /\ Collected(ctx) = FirstRows(inv.handler, inv.pos)

FiveRowsOf40 == [i \in 1..5 |-> 40]

\* 5 rows of size 40 against a threshold of 100: one flush mid-stream, after
\* the 3rd row; the remaining 2 rows are flushed once at the end; the result
\* references 2 merged parts.
Scenario5x40 ==
    (ExecGen /\ inv.handler.rows = FiveRowsOf40 /\ inv.handler.fail = "none") =>
        /\ (inv.pc = "running" /\ inv.pos < 3) => ctx.parts = <<>>
        /\ (inv.pc = "running" /\ inv.pos >= 3) =>
              ctx.parts = <<FirstRows(inv.handler, 3)>>
        /\ inv.pc = "Completed" =>
              /\ ctx.parts = <<FirstRows(inv.handler, 3),
                               <<Row(inv.handler.rows, 4), Row(inv.handler.rows, 5)>> >>
              /\ inv.result.kind = "ref"
              /\ inv.result.total_parts = 2
              /\ ctx.merges = <<ctx.parts>>

\* C3 as stated: a flush happens exactly when, after a row is appended, the
\* running size total has reached the threshold; each flush records one part
\* and resets buffer and total; and the 5 x 40 scenario.
C3_FlushExactlyAtThreshold ==
    FlushedExactlyWhen(ByBytes) /\ Scenario5x40

\* C3, amended: a flush happens exactly when, after a row is appended, the
\* running size total has reached the threshold or the buffered row count has
\* reached the row-group size; each flush records one part and resets buffer
\* and total; and the 5 x 40 scenario, for a row-group size above 3.
C3_FlushAtThresholdOrRowGroup ==
    FlushedExactlyWhen(ByBytesOrCount) /\ Scenario5x40

C3_Witness ==
    /\ ExecGen
    /\ inv.handler.rows = FiveRowsOf40
    /\ inv.pc = "Completed"
    /\ inv.result.total_parts = 2

\* The step in which execute finds the generator exhausted and returns.
ExecuteFinishes ==
    ExecGen /\ inv.pc = "running" /\ inv'.pc = "Completed"

C5_State ==
    ExecGen =>
        \* one check per row taken from the generator
        /\ ctx.checks = inv.pos + (IF inv.byCheck THEN 1 ELSE 0)
        \* rows are appended only after their check passed
        /\ Collected(ctx) = FirstRows(inv.handler, inv.pos)
        /\ inv.byCheck =>
              /\ inv.pc = "Cancelled"
              /\ inv.exc = "interrupted"
              /\ inv.result = NoResult
              /\ ctx.merges = <<>>
              /\ stop

C5_Step ==
    /\ (ExecGen /\ inv.pc = "running" /\ stop) =>
          /\ Collected(ctx') = Collected(ctx)
          /\ inv'.pos = inv.pos
          /\ (Yields(inv) /\ inv' # inv) =>
                inv'.pc = "Cancelled" /\ inv'.byCheck
    /\ inv.pc \in {"Completed", "Failed", "Cancelled"} =>
          inv' = inv /\ ctx' = ctx

\* C5: while execute consumes a lazy sequence the cancellation flag is
\* checked once for every produced row, before the row is appended; with the
\* flag set the invocation ends Cancelled by InterruptedError, the row is not
\* appended, no later row is consumed, no merge is requested and no result
\* is returned.
C5_CancelCheckedBeforeEachAppend ==
    []C5_State /\ [][C5_Step]_vars

\* Cancelled by the check, after rows had been appended.
C5_Witness ==
    ExecGen /\ inv.byCheck /\ inv.pos >= 1 /\ inv.pos < Len(inv.handler.rows)

TerminalEvents == {"success", "exception", "cancelled"}

\* C6: an invocation ends in exactly one of Completed, Failed, Cancelled; run
\* inside a with block, its ENTER event is followed by exactly one terminal
\* event (SUCCESS, EXCEPTION or CANCELLED), whatever the handler does.
C6_ExactlyOneTerminalEvent ==
    (inv.inWith /\ inv.pc \in {"Completed", "Failed", "Cancelled"}) =>
        /\ ctx.events # <<>>
        /\ ctx.events[1] = "enter"
        /\ Len(SelectSeq(ctx.events, LAMBDA e : e \in TerminalEvents)) = 1

\* C7: in execute_stream every produced row reaches the caller as exactly one
\* chunk, in production order; a chunk the runtime wrapped carries the row's
\* position as its index; and every streamed row is also added to the
\* collector.
C7_StreamChunksIndexedAndCollected ==
    (inv.mode = "stream" /\ inv.handler.gen) =>
        /\ Len(inv.chunks) = inv.pos
        /\ \A i \in DOMAIN inv.chunks :
              /\ inv.chunks[i].delta = i
              /\ ~inv.handler.chunks =>
                    inv.chunks[i].index = inv.chunks[1].index + (i - 1)
        /\ Collected(ctx) = FirstRows(inv.handler, inv.pos)

(***************************************************************************)
(* The scanner, the manifest generator and the alignment check.            *)
(***************************************************************************)

\* A source tree of at most MaxFiles files, all written at the first tick,
\* or no tools directory at all; a scanner built with or without its cache.
InitScan ==
    /\ constructed = FALSE
    /\ manifest = <<>>
    /\ actions = EmptyDict
    /\ lookup = NoLookup
    /\ run = NoRun
    /\ inv = NoInv
    /\ ctx = NewContext
    /\ stop = FALSE
    /\ now = 1
    /\ \E present \in SUBSET EditedFiles, exists \in BOOLEAN :
          /\ Cardinality(present) <= MaxFiles
          /\ exists \/ present = {}
          /\ tools = [exists |-> exists,
                      mtime |-> [f \in Files |->
                                    IF f \in present THEN 1 ELSE 0]]
    /\ cache = NoCache
    /\ use_cache \in BOOLEAN
    /\ persisted = NoManifestFile
    /\ scan = NoScan
    /\ align = NoAlign
    /\ changedSinceGenerate = FALSE
    /\ changes = 0
    /\ CoreIdle

NextScan ==
    \/ Tick
    \/ WriteFile
    \/ RemoveFile
    \/ ScanToolsDirectory
    \/ Generate
    \/ CheckCodeAlignment

SpecScan == InitScan /\ [][NextScan]_vars

\* C8: with the cache in use, a scan_tools_directory call that follows
\* another one with no file change in between returns the same Action list
\* as the first and runs no syntax pass over any file and no module load,
\* whatever the directory holds, a directory whose first scan found no
\* Action included.
C8_SecondScanServedFromCache ==
    (use_cache /\ scan.done /\ scan.repeat) =>
            /\ scan.result = scan.prevResult
            /\ scan.parsed = 0
            /\ scan.loads = 0

\* C9: an alignment check that runs on the source tree as it was when
\* generate wrote manifest.yaml reports no name missing in the code and no
\* name missing in the manifest.
C9_GenerateThenCheckHasNoDrift ==
    (align.done /\ align.generated) =>
        /\ align.missing_in_code = {}
        /\ align.missing_in_manifest = {}

ManifestNames == {persisted.actions[i] : i \in DOMAIN persisted.actions}

ScannedNames(s) == {s.result[i].name : i \in DOMAIN s.result}

\* C10: an alignment check reports as missing in code the manifest's names
\* that the scan it ran did not return, as missing in manifest the scanned
\* names the manifest does not list, and passes exactly when both sets are
\* empty.
C10_AlignmentIsBothSetDifferences ==
    [][CheckCodeAlignment =>
          LET M == ManifestNames
              C == ScannedNames(scan')
          IN  /\ align'.missing_in_code = {n \in M : n \notin C}
              /\ align'.missing_in_manifest = {n \in C : n \notin M}
              /\ align'.valid <=>
                    (\A n \in M : n \in C) /\ (\A n \in C : n \in M)]_vars

\* A check that found a name on each side: one only in the manifest, another
\* only in the code.
C10_Witness ==
    /\ align.done
    /\ ~align.valid
    /\ scan.kind = "plain"
    /\ align.missing_in_code # {}
    /\ align.missing_in_manifest # {}
    /\ align.missing_in_code = ManifestNames \ ScannedNames(scan)
    /\ align.missing_in_manifest = ScannedNames(scan) \ ManifestNames

(***************************************************************************)
(* The schema well-formedness check.                                       *)
(***************************************************************************)

\* No runtime, runner or invocation.
PluginIdle ==
    /\ constructed = FALSE
    /\ manifest = <<>>
    /\ actions = EmptyDict
    /\ lookup = NoLookup
    /\ run = NoRun
    /\ inv = NoInv
    /\ ctx = NewContext
    /\ stop = FALSE

InitSchema ==
    /\ PluginIdle
    /\ ScanIdle
    /\ givenSchema \in SchemaNodes(MaxSchemaHeight)
    /\ checked = NoChecked
    /\ project = NoProject
    /\ audit = NoAudit
    /\ method = NoMethod
    /\ action_meta = NotParsed
    /\ WatchIdle
    /\ ExtIdle

NextSchema == ValidateSchema

SpecSchema == InitSchema /\ [][NextSchema]_vars

\* The node of a schema at a context, and the contexts the walk reaches: the
\* root, every property of a reached object that has its type, properties
\* and a depth within the limit, and the items of such an array.
RECURSIVE NodeAt(_, _)
NodeAt(node, context) ==
    IF context = <<>> THEN node
    ELSE IF Head(context) = 0 THEN NodeAt(node.items[1], Tail(context))
    ELSE NodeAt(node.properties[Head(context)], Tail(context))

NodeFault(node, depth) ==
    IF depth > MAX_NESTING_DEPTH THEN "depth"
    ELSE IF node.type = Absent THEN "type"
    ELSE IF node.type = "object" /\ ~node.hasProperties THEN "properties"
    ELSE IF node.type = "array" /\ ~node.hasItems THEN "items"
    ELSE "none"

RECURSIVE ReachedFrom(_, _, _)
ReachedFrom(node, context, depth) ==
    {context} \cup
    IF NodeFault(node, depth) # "none" THEN {}
    ELSE IF node.type = "object" THEN
        UNION { ReachedFrom(node.properties[i], Append(context, i), depth + 1)
                    : i \in DOMAIN node.properties }
    ELSE IF node.type = "array" THEN
        ReachedFrom(node.items[1], Append(context, 0), depth + 1)
    ELSE {}

FaultyContexts ==
    { c \in ReachedFrom(givenSchema, <<>>, 0) :
          NodeFault(NodeAt(givenSchema, c), Len(c)) # "none" }

ReportedContexts ==
    { checked.result.errors[i].context : i \in DOMAIN checked.result.errors }

\* C19: the check fails exactly when a node it reaches lacks its type, is an
\* object without properties, an array without items, or lies deeper than
\* MAX_NESTING_DEPTH; it reports every such node once with what is wrong
\* with it, a failing property not hiding its siblings.
C19_SchemaCheckFailsIffFaultReached ==
    checked.done =>
        /\ checked.result.ok <=> FaultyContexts = {}
        /\ ReportedContexts = FaultyContexts
        /\ Len(checked.result.errors) = Cardinality(FaultyContexts)
        /\ \A i \in DOMAIN checked.result.errors :
              LET e == checked.result.errors[i]
              IN  e.what = NodeFault(NodeAt(givenSchema, e.context),
                                     Len(e.context))

\* An object whose two properties both fail, one of them by its depth.
C19_Witness ==
    /\ checked.done
    /\ ~checked.result.ok
    /\ Len(checked.result.errors) = 2
    /\ \E i \in DOMAIN checked.result.errors :
          checked.result.errors[i].what = "depth"

\* One tools directory of at most MaxFiles files, scanned by a scanner built
\* with or without its cache.
InitScanOnce ==
    /\ PluginIdle
    /\ CoreIdle
    /\ now = 1
    /\ \E present \in SUBSET Files, exists \in BOOLEAN :
          /\ Cardinality(present) <= MaxFiles
          /\ exists \/ present = {}
          /\ tools = [exists |-> exists,
                      mtime |-> [f \in Files |->
                                    IF f \in present THEN 1 ELSE 0]]
    /\ cache = NoCache
    /\ use_cache \in BOOLEAN
    /\ persisted = NoManifestFile
    /\ scan = NoScan
    /\ align = NoAlign
    /\ changedSinceGenerate = FALSE
    /\ changes = 0

NextScanOnce == ScanToolsDirectory

SpecScanOnce == InitScanOnce /\ [][NextScanOnce]_vars

\* The files that do not parse or whose module does not load.
BadFiles == {f \in Files : ~FileInfo(f).parses \/ ~FileInfo(f).loadable}

WithoutBadFiles(t) ==
    [t EXCEPT !.mtime = [f \in Files |->
                            IF f \in BadFiles THEN 0 ELSE t.mtime[f]]]

\* C16: a scan_tools_directory call that computes its result returns the
\* Actions of the files that parse and load, the same list as on the tree
\* without the files that fail to parse or to load.
C16_BadFilesAreSkipped ==
    (scan.done /\ scan.kind = "plain" /\ ~scan.fromCache) =>
        scan.result =
            scan_tools_directory(WithoutBadFiles(tools), NoCache, FALSE,
                                 now).result

\* A computed scan of a tree that holds a bad file and returned Actions.
C16_Witness ==
    /\ scan.done
    /\ scan.kind = "plain"
    /\ ~scan.fromCache
    /\ Present(tools) \cap BadFiles # {}
    /\ scan.result # <<>>

\* C17: after every completed scan of a scanner that uses its cache,
\* scan_tools_directory or scan_tools_directory_smart, whatever it returned,
\* the cache entry of the directory exists and holds the list the scan
\* returned (as JSON stores it).
C17_CacheHoldsWhatTheScanReturned ==
    (scan.done /\ use_cache) =>
        /\ cache.exists
        /\ cache.data = json_dump(scan.result)

(***************************************************************************)
(* The full audit.                                                         *)
(***************************************************************************)

\* A project of at most MaxFiles source files with any requirements.txt and
\* any manifest.yaml, audited by a scanner built with or without its cache.
InitAudit ==
    /\ PluginIdle
    /\ now = 1
    /\ \E present \in SUBSET Files, exists \in BOOLEAN :
          /\ Cardinality(present) <= MaxFiles
          /\ exists \/ present = {}
          /\ tools = [exists |-> exists,
                      mtime |-> [f \in Files |->
                                    IF f \in present THEN 1 ELSE 0]]
    /\ cache = NoCache
    /\ use_cache \in BOOLEAN
    /\ project \in Projects
    /\ project.manifest # "data" =>
          /\ project.plugin_info = "absent"
          /\ ~project.hasActions
          /\ project.inputSchema = LeafNode("object")
    /\ \E names \in ManifestNameLists :
          /\ (project.manifest # "data" \/ ~project.hasActions) => names = <<>>
          /\ persisted = [exists |-> project.manifest # "missing",
                          actions |-> names, plugin_info |-> NoInfo]
    /\ scan = NoScan
    /\ align = NoAlign
    /\ changedSinceGenerate = FALSE
    /\ changes = 0
    /\ givenSchema = LeafNode("string")
    /\ checked = NoChecked
    /\ audit = NoAudit
    /\ method = NoMethod
    /\ action_meta = NotParsed
    /\ WatchIdle
    /\ ExtIdle

NextAudit == CheckAll

SpecAudit == InitAudit /\ [][NextAudit]_vars

\* C11: every check_all call returns, having run the requirements check, the
\* alignment check, the schema check and the parameter-annotation check, and
\* returns true exactly when none of them failed, whatever the state of
\* requirements.txt and manifest.yaml.
C11_AuditRunsEverySubCheck ==
    audit.done =>
        /\ audit.outcome # "raised"
        /\ audit.ran = SubChecks
        /\ audit.outcome = "true" <=> audit.failed = {}

(***************************************************************************)
(* Type translation.                                                       *)
(***************************************************************************)

ParamBases ==
    {"None", "str", "list", "dict", "MyDict", "Dict[str, Any]", "Leaf",
     "Node", "Bag", "Outer", "Broken"}

\* The hints a parameter may carry.
ParamHints ==
    {Bare(b) : b \in ParamBases}
    \cup {Annotated(b, f, mk) :
            b \in ParamBases \ {"None"},
            f \in {"text", "empty", "other"}, mk \in BOOLEAN}

\* The first parameter of the method is any declaration; the further ones
\* come from a short list.
FirstParams == {Decl("p1", h, d) : h \in ParamHints, d \in Defaults}

MoreParams(name) ==
    {Decl(name, Bare("int"), "empty"),
     Decl(name, Annotated("str", "text", FALSE), "value")}

RECURSIVE ParamLists(_)
ParamLists(n) ==
    IF n = 1 THEN {<<d>> : d \in FirstParams}
    ELSE LET shorter == ParamLists(n - 1)
         IN  shorter
             \cup {Append(ps, d) :
                     ps \in {q \in shorter : Len(q) = n - 1},
                     d \in MoreParams(IF n = 2 THEN "p2" ELSE "p3")}

InitTranslate ==
    /\ PluginIdle
    /\ ScanIdle
    /\ givenSchema = LeafNode("string")
    /\ checked = NoChecked
    /\ project = NoProject
    /\ audit = NoAudit
    /\ WatchIdle
    /\ ExtIdle
    /\ \E ps \in ParamLists(MaxParams), res \in BOOLEAN :
          method = [params |-> ps,
                    returns |-> Annotated("str", "text", FALSE),
                    resolvable |-> res]
    /\ action_meta = NotParsed

NextTranslate == ParseToMeta

SpecTranslate == InitTranslate /\ [][NextTranslate]_vars

\* The hint resolve_type is handed for the i-th parameter.
GivenHint(i) ==
    IF method.resolvable THEN method.params[i].hint ELSE Bare("None")

\* The diagnostics recorded for one parameter name.
WarningsFor(name) ==
    SelectSeq(action_meta.validation_warnings, LAMBDA w : w.param = name)

\* The parameter is declared as Annotated[type, "non-empty description"].
Described(d) == d.hint.annotated /\ d.hint.first = "text"

\* C12: once a method is parsed, each of its parameters that is not declared
\* as an Annotated type with a non-empty description (unannotated, a bare
\* type, Annotated without a description string or with an empty one) has
\* exactly one parameter_annotation or parameter_description diagnostic and
\* the annotation check of the audit reports an error; a parameter declared
\* with a type and a non-empty description has none.
C12_OneDiagnosticPerUndescribedParameter ==
    action_meta.done =>
        \A i \in DOMAIN method.params :
            LET d == method.params[i]
                ws == WarningsFor(d.name)
            IN  IF Described(d) THEN ws = << >>
                ELSE /\ Len(ws) = 1
                     /\ ws[1].type \in {"parameter_annotation",
                                        "parameter_description"}
                     /\ validate_actions_annotations(action_meta) # << >>

\* The nodes of a resolved schema with the depth each was resolved at.
RECURSIVE NodesFrom(_, _)
NodesFrom(node, depth) ==
    {[depth |-> depth, node |-> node]}
    \cup UNION {NodesFrom(node.properties[i].node, depth + 1) :
                    i \in DOMAIN node.properties}

ResolvedNodes ==
    UNION {NodesFrom(action_meta.properties[i].node, 0) :
              i \in DOMAIN action_meta.properties}

MapBases == {"dict", "MyDict", "Dict[str, Any]"}

\* Every map-typed hint in the declaration resolved to an INVALID node.
RECURSIVE MapsInvalid(_, _)
MapsInvalid(hint, node) ==
    IF hint.base \in MapBases THEN node.type = "INVALID"
    ELSE \A i \in DOMAIN node.properties :
            MapsInvalid(ClassFields(hint.base)[i].hint,
                        node.properties[i].node)

\* C14: a parameter or class field whose type is dict, a subclass of dict or
\* Dict[str, Any] resolves to an INVALID node at every depth, whatever
\* Annotated description, Required marker or default comes with it.
C14_MapTypesResolveInvalid ==
    action_meta.done =>
        \A i \in DOMAIN method.params :
            MapsInvalid(GivenHint(i), action_meta.properties[i].node)

\* C15: the node stored under inputSchema.properties for a parameter carries
\* a required key, and its value is true exactly when the parameter has no
\* default value.
C15_TopLevelRequiredIffNoDefault ==
    action_meta.done =>
        \A i \in DOMAIN method.params :
            LET node == action_meta.properties[i].node
            IN  /\ node.hasRequired
                /\ node.required <=> method.params[i].default = "empty"

\* The names of the declared fields that have no default, in order.
FieldsWithoutDefault(base) ==
    LET needed == SelectSeq(ClassFields(base), LAMBDA f : f.default = "empty")
    IN  [i \in DOMAIN needed |-> needed[i].name]

RECURSIVE FieldsListed(_, _)
FieldsListed(hint, node) ==
    node.hasProperties =>
        /\ node.required_fields = FieldsWithoutDefault(hint.base)
        /\ \A i \in DOMAIN node.properties :
              /\ ~node.properties[i].node.hasRequired
              /\ FieldsListed(ClassFields(hint.base)[i].hint,
                              node.properties[i].node)

\* C18: in every resolved class node, required_fields lists the declared
\* fields without a default value, in declaration order, and no child node
\* has a required key.
C18_FieldsWithoutDefaultAreListed ==
    action_meta.done =>
        \A i \in DOMAIN method.params :
            FieldsListed(GivenHint(i), action_meta.properties[i].node)

(***************************************************************************)
(* The watcher.                                                            *)
(***************************************************************************)

InitWatch ==
    /\ PluginIdle
    /\ ScanIdle
    /\ CoreIdle

NextWatch ==
    \/ HandleFileEvent
    \/ Poll
    \/ \E t \in Threads : CheckPath(t)
    \/ \E t \in Threads : InsertPath(t)
    \/ \E t \in Threads : LoadModule(t)
    \/ \E t \in Threads : CheckPresent(t)
    \/ \E t \in Threads : RemovePath(t)

SpecWatch == InitWatch /\ [][NextWatch]_vars

\* The threads inside _enrich_with_types.
Enriching == {t \in Threads : threads[t].pc # "idle"}

\* C20: at most one thread is inside an enrichment pass at any time, the
\* tools directory is on sys.path whenever a thread is about to load a
\* module, and no pass fails on removing it.
C20_EnrichmentPassesDoNotInterleave ==
    /\ Cardinality(Enriching) <= 1
    /\ \A t \in Threads :
          /\ (threads[t].pc = "loading" /\ threads[t].left > 0) => sys_path > 0
          /\ ~threads[t].failed

(***************************************************************************)
(* The collector during one execute call (SpecExec).                       *)
(***************************************************************************)

\* C25: while execute feeds a generator's rows to the collector, after every
\* add and every flush the running byte total is the sum of the estimated
\* sizes of the buffered rows, it is below the spill threshold, the buffer
\* holds fewer than ROW_GROUP_SIZE rows, and the saved parts in order
\* followed by the buffer are the rows added so far.
C25_CollectorInvariants ==
    ExecGen =>
        /\ ctx.bytes = SumSizes(ctx.buffer)
        /\ ctx.bytes < AUTO_SPILL_THRESHOLD_BYTES
        /\ Len(ctx.buffer) < ROW_GROUP_SIZE
        /\ Collected(ctx) = FirstRows(inv.handler, inv.pos)

\* Rows were added after a flush: a part is saved and the buffer is in use.
C25_Witness ==
    /\ ExecGen
    /\ inv.pc = "running"
    /\ Len(ctx.parts) >= 1
    /\ Len(ctx.buffer) >= 2
    /\ inv.pos = MaxRows

(***************************************************************************)
(* Successive execute calls on one context.                                *)
(***************************************************************************)

InitSession ==
    /\ PluginIdle
    /\ ScanIdle
    /\ CoreIdle

NextSession == RunCommand

SpecSession == InitSession /\ [][NextSession]_vars

\* C26: the result of each execute call covers the rows of that call only:
\* the parts it merged hold exactly the rows its generator yielded, and a
\* call whose generator yields no row returns no reference.
C26_ResultCoversOnlyItsOwnRows ==
    \A k \in DOMAIN session.runs :
        LET r == session.runs[k]
        IN  /\ r.merged => Flatten(r.parts) = r.rows
            /\ r.rows = <<>> => r.result.kind # "ref"

(***************************************************************************)
(* sys.path around one enrichment pass.                                    *)
(***************************************************************************)

InitEnrich ==
    /\ PluginIdle
    /\ ScanIdle
    /\ givenSchema = LeafNode("string")
    /\ checked = NoChecked
    /\ project = NoProject
    /\ audit = NoAudit
    /\ method = NoMethod
    /\ action_meta = NotParsed
    /\ WatchIdle
    /\ session = NewSession
    /\ ast_scan = NotScanned
    /\ watch_events = NoEvents
    /\ cache_io = NoCacheIO
    /\ \E q \in PathLists : search_path = SearchPath(q, <<>>, "start", FALSE)

NextEnrich ==
    \/ Prepare
    \/ EnrichWithTypes

SpecEnrich == InitEnrich /\ [][NextEnrich]_vars

\* C24: when a call of _enrich_with_types is over, its loads having failed
\* or not, sys.path is the list the call found, whether the tools directory
\* was on it before the call or not.
C24_EnrichLeavesSysPathAsFound ==
    search_path.pc = "done" => search_path.path = search_path.found

(***************************************************************************)
(* Rescans of one directory by scan_tools_directory with the cache in use, *)
(* between edits that move the edited file's mtime past the cache          *)
(* snapshot.                                                               *)
(***************************************************************************)

\* A file is created or edited after the cache entry was written.
WriteFileLater ==
    /\ cache.exists => now > cache.mtime
    /\ WriteFile

InitRescan ==
    /\ InitScan
    /\ use_cache

NextRescan ==
    \/ Tick
    \/ WriteFileLater
    \/ RemoveFile
    \/ ScanToolsDirectory

SpecRescan == InitRescan /\ [][NextRescan]_vars

\* What scan_tools_directory computes on the tree when it does not use the
\* cached list, as the cache file stores it.
Recomputed ==
    json_dump(enrich_with_types(
                  extract_action_signatures(plain_py_files(tools))).full_actions)

\* C27: a list returned from the cache is the list a full recompute over the
\* present candidate files would give, after any edits, additions and
\* deletions of files; no Action of a deleted file is returned.
C27_CachedListEqualsRecompute ==
    (scan.done /\ scan.fromCache) => scan.result = Recomputed

(***************************************************************************)
(* Both scan entry points on one unchanged directory, the cache in use.    *)
(***************************************************************************)

NextBothScans ==
    \/ ScanToolsDirectory
    \/ Generate

SpecBothScans == InitRescan /\ [][NextBothScans]_vars

\* What scan_tools_directory_smart computes under an intent when it does not
\* use the cached list, as the cache file stores it.
RecomputedSmart(intent) ==
    json_dump(enrich_with_types(
                  extract_action_signatures(filter_files(tools, intent))).full_actions)

\* C28: on an unchanged directory a list that scan_tools_directory returns
\* from the cache is the list of its own file selection, and a list that
\* scan_tools_directory_smart returns from the cache is the list of the file
\* selection of one of its intents.
C28_CachedListIsOfTheSameSelection ==
    (scan.done /\ scan.fromCache) =>
        IF scan.kind = "plain" THEN scan.result = Recomputed
        ELSE \E intent \in Intents : scan.result = RecomputedSmart(intent)

(***************************************************************************)
(* generate on a project that has a manifest.yaml or not.                  *)
(***************************************************************************)

\* The plugin_info blocks a manifest.yaml may carry.
PluginInfos ==
    {NoInfo, PluginInfo("scalar", NoInfo.fields, FALSE)}
    \cup {PluginInfo("mapping", f, x) :
             f \in [InfoKeys -> {"missing", "mine"}], x \in BOOLEAN}

\* The manifest.yaml files a project may start with.
ManifestFiles ==
    {NoManifestFile}
    \cup {[exists |-> TRUE, actions |-> <<"old">>, plugin_info |-> i] :
             i \in PluginInfos}

InitGenerate ==
    /\ PluginIdle
    /\ CoreIdle
    /\ now = 1
    /\ \E present \in SUBSET {"bar.py", "foo.py", "util.py", "warn.py"} :
          tools = [exists |-> TRUE,
                   mtime |-> [f \in Files |-> IF f \in present THEN 1 ELSE 0]]
    /\ cache = NoCache
    /\ use_cache \in BOOLEAN
    /\ persisted \in ManifestFiles
    /\ scan = NoScan
    /\ align = NoAlign
    /\ changedSinceGenerate = FALSE
    /\ changes = 0

NextGenerate == Generate

SpecGenerate == InitGenerate /\ [][NextGenerate]_vars

\* The scan of the generate call that ends in the next state found an
\* Action and no parameter-annotation error.
GenerateWrites ==
    /\ scan'.result # <<>>
    /\ validate_actions(scan'.result) = {}

\* C30: a generate call changes manifest.yaml only when its scan found at
\* least one Action and no Action has a parameter-annotation error; when it
\* writes, the actions list holds the scanned Actions in scan order, and
\* every one of id, name, version and description that the plugin_info
\* mapping of the manifest before the call carried is in the new one.
C30_GenerateWritesOnlyCleanScans ==
    [][Generate =>
          IF GenerateWrites
          THEN /\ persisted'.exists
               /\ persisted'.actions =
                      [i \in DOMAIN scan'.result |-> scan'.result[i].name]
               /\ (persisted.exists /\ persisted.plugin_info.kind = "mapping") =>
                     \A k \in InfoKeys :
                        persisted.plugin_info.fields[k] # "missing" =>
                           persisted'.plugin_info.fields[k] =
                               persisted.plugin_info.fields[k]
          ELSE persisted' = persisted]_vars

\* generate has rewritten a manifest whose plugin_info named the plugin.
C30_Witness ==
    /\ scan.done
    /\ scan.kind = "smart"
    /\ Len(scan.result) = 2
    /\ persisted.actions = <<scan.result[1].name, scan.result[2].name>>
    /\ persisted.plugin_info.fields["id"] = "mine"
    /\ persisted.plugin_info.fields["version"] = "0.1.0"

(***************************************************************************)
(* The contract of one parsed method handed to the schema check.           *)
(***************************************************************************)

\* Parameter and return types that resolve_type nests one to four levels.
ContractBases == {"str", "int", "list", "Leaf", "Box", "Wrap", "Node"}

ContractHints ==
    {Bare(b) : b \in ContractBases}
    \cup {Annotated(b, "text", mk) : b \in ContractBases, mk \in BOOLEAN}

InitContract ==
    /\ PluginIdle
    /\ ScanIdle
    /\ givenSchema = LeafNode("string")
    /\ checked = NoChecked
    /\ project = NoProject
    /\ audit = NoAudit
    /\ WatchIdle
    /\ ExtIdle
    /\ \E h \in ContractHints, r \in ContractHints, d \in Defaults :
          method = [params |-> <<Decl("p1", h, d)>>, returns |-> r,
                    resolvable |-> TRUE]
    /\ action_meta = NotParsed

NextContract ==
    \/ ParseToMeta
    \/ CheckManifestContent

SpecContract == InitContract /\ [][NextContract]_vars

\* The nodes resolve_type returned for the parameters and the return type.
ContractNodes ==
    ResolvedNodes \cup NodesFrom(action_meta.outputSchema, 0)

\* C23: when no node that resolve_type returned for the parameters and the
\* return type of an action is INVALID, the schema check of the action's
\* inputSchema and outputSchema reports no exceeded depth.
C23_ResolvedContractPassesDepthCheck ==
    (checked.done /\ \A r \in ContractNodes : r.node.type # "INVALID") =>
        \A i \in DOMAIN checked.result.errors :
            checked.result.errors[i].what # "depth"

(***************************************************************************)
(* The syntax pass over one file.                                          *)
(***************************************************************************)

MaxMembers == 3

\* The statements of a class body: a method with any decorator, an async
\* method, or a nested class with one action method.
Members(name) ==
    {FunctionDef(name, FALSE, d) :
        d \in {"action", "call", "attr_call", "other", "none"}}
    \cup {FunctionDef(name, TRUE, "action")}
    \cup {ClassDef(name, b, <<FunctionDef("inner", FALSE, "action")>>) :
             b \in {"name", "attr", "other"}}

MemberNames == <<"m1", "m2", "m3", "m4">>

RECURSIVE Bodies(_)
Bodies(n) ==
    IF n = 0 THEN {<<>>}
    ELSE LET shorter == Bodies(n - 1)
         IN  shorter
             \cup {Append(b, m) : b \in {q \in shorter : Len(q) = n - 1},
                                  m \in Members(MemberNames[n])}

\* A file with one top-level class; in a class without the plugin base the
\* nested classes have none either.
InitSyntax ==
    /\ PluginIdle
    /\ ScanIdle
    /\ givenSchema = LeafNode("string")
    /\ checked = NoChecked
    /\ project = NoProject
    /\ audit = NoAudit
    /\ method = NoMethod
    /\ action_meta = NotParsed
    /\ WatchIdle
    /\ session = NewSession
    /\ search_path = SearchPath(<<>>, <<>>, "start", FALSE)
    /\ watch_events = NoEvents
    /\ cache_io = NoCacheIO
    /\ \E base \in {"name", "attr", "other"}, b \in Bodies(MaxMembers) :
          /\ base = "other" =>
                \A i \in DOMAIN b : b[i].kind = "class" => b[i].base = "other"
          /\ ast_scan = [body |-> <<ClassDef("Plugin", base, b)>>,
                         done |-> FALSE, actions |-> <<>>]

NextSyntax == ExtractActionSignatures

SpecSyntax == InitSyntax /\ [][NextSyntax]_vars

\* The marked methods directly in the body of the classes that carry the
\* plugin base, in source order, each with its own class.
RECURSIVE MarkedMethods(_, _)
MarkedMethods(body, owner) ==
    IF body = <<>> THEN <<>>
    ELSE LET node == Head(body)
             here == IF node.kind = "class"
                     THEN IF inherits_base_plugin(node)
                          THEN MarkedMethods(node.body, node.name)
                          ELSE <<>>
                     ELSE IF owner # NoClass /\ has_action_decorator(node)
                          THEN <<extract_action_from_ast(node, owner)>>
                          ELSE <<>>
         IN  here \o MarkedMethods(Tail(body), owner)

\* C22: the syntax pass records, in source order, one signature for every
\* method marked @action or @action(...) directly in the body of a class
\* with the plugin base, whatever stands before it in the class body, and
\* nothing else.
C22_OneSignaturePerMarkedMethod ==
    ast_scan.done => ast_scan.actions = MarkedMethods(ast_scan.body, NoClass)

(***************************************************************************)
(* The watcher's event queue: the main loop polls for ever and time        *)
(* passes.                                                                 *)
(***************************************************************************)

InitEvents ==
    /\ PluginIdle
    /\ ScanIdle
    /\ CoreIdle

NextEvents ==
    \/ OnFileEvent
    \/ MainLoopPoll
    \/ CooldownPasses

SpecEvents ==
    /\ InitEvents
    /\ [][NextEvents]_vars
    /\ WF_vars(MainLoopPoll)
    /\ WF_vars(CooldownPasses)

\* C29: no path stands twice in a batch handed to _trigger_incremental_sync,
\* and every path whose change event reached the handler is later in such a
\* batch, the events that come during the cooldown and those queued beyond
\* the size of the deque included.
C29_EveryChangeReachesABatch ==
    /\ [](\A i, j \in DOMAIN watch_events.batch :
             watch_events.batch[i] = watch_events.batch[j] => i = j)
    /\ \A f \in WatchedPaths :
          (f \in watch_events.pending) ~> (f \notin watch_events.pending)

(***************************************************************************)
(* Concurrent saves and loads of one cache entry.                          *)
(***************************************************************************)

InitCacheIO ==
    /\ PluginIdle
    /\ ScanIdle
    /\ CoreIdle

NextCacheIO ==
    \/ \E w \in Writers : AcquireLock(w)
    \/ \E w \in Writers : OpenForWrite(w)
    \/ \E w \in Writers : WritePiece(w)
    \/ \E w \in Writers : CloseAndRelease(w)
    \/ LoadCache

SpecCacheIO == InitCacheIO /\ [][NextCacheIO]_vars

\* The writers between open and close.
Overwriting == {w \in Writers : cache_io.writers[w].pc = "writing"}

\* The lists some save_cache call was given.
ListsWritten ==
    {cache_io.writers[w].data :
        w \in {v \in Writers : cache_io.writers[v].pc \in {"writing", "done"}}}

\* C21: at most one writer is overwriting the cache entry at a time, the
\* writers of different CacheManager instances included, and a load_cache
\* that returns a list returns a list that some save_cache call was given.
C21_ExclusiveOverwriteCompleteLoad ==
    /\ Cardinality(Overwriting) <= 1
    /\ cache_io.loaded.kind = "list" => cache_io.loaded.data \in ListsWritten

====
